---- MODULE Spec2Model ----
(***************************************************************************)
(* Model of the Superior RAG core (internal-modules/rag-system).           *)
(*                                                                         *)
(* Part 1: the hierarchical memory manager (memory/memory_manager.py).     *)
(* The table memory_items is the set `store` of rows; every handler of     *)
(* MemoryManager is one action that runs the handler's SQL statements in   *)
(* order, with the exception handling of the code.  A collaborator call    *)
(* (relational store, cache) may raise: the input `fail` of an action      *)
(* names the call that raises, if the handler reaches it.                  *)
(*                                                                         *)
(* Units: time is counted in hours (3600 s), importance in tenths.         *)
(*                                                                         *)
(* Part 2: the retriever (retrieval/retriever.py): retrieve and the hybrid *)
(* merge, with the result cache.  Part 3: the reflection engine            *)
(* (core/reflection_engine.py).  Scores are counted in hundredths. Part 4: *)
(* the chunking of the document processor (core/document_processor.py).    *)
(* Part 5: two calls of add_to_memory interleaved at their awaits.  Part   *)
(* 6: process, delete and update of a document.  Part 7: the rate limit    *)
(* middleware of the MIS API (external-modules/mis/backend/mis-api).       *)
(* Each part has its own specification; the variables of the other parts   *)
(* stay at their initial values.                                           *)
(***************************************************************************)
EXTENDS Integers, FiniteSets, Sequences, TLC

VARIABLES store, cache, now, ticks, nextId, last, scenario, retrieval_cache, retrieval_now, retrieval_last, reflection, segmenter, adders, documents, limiter

vars == <<store, cache, now, ticks, nextId, last, scenario, retrieval_cache, retrieval_now, retrieval_last, reflection, segmenter, adders, documents, limiter>>

\* The variables of the memory manager, of the retriever and of the
\* reflection engine
memory_vars == <<store, cache, now, ticks, nextId, last>>
retriever_vars == <<retrieval_cache, retrieval_now, retrieval_last>>
reflection_vars == <<reflection>>
segmenter_vars == <<segmenter>>
adder_vars == <<adders>>
document_vars == <<documents>>
limiter_vars == <<limiter>>

\* No call of the retriever, of the reflection engine, or of the chunking
\* of the document processor, made yet
NoRetrieval == [op |-> "none"]
NoReflection == [phase |-> "Idle"]
NoChunking == [phase |-> "Idle"]

\* No concurrent add in progress, no call of the document processor and no
\* request to the rate limiter, made yet
NoAdders == [name |-> "none"]
NoDocuments == [op |-> "none"]
NoLimiter == [status |-> "none"]

----------------------------------------------------------------------------
(* Bounds of the model *)

\* number of rows the INSERT of add_to_memory may create in one behaviour
MaxId == 3
\* number of times the clock advances in one behaviour
MaxTicks == 1
\* largest access_count a row reaches (get_memory is disabled beyond it)
MaxAccess == 1
\* memory.*.max_items in the configuration of ScenarioCapacity
MaxItems == 1

----------------------------------------------------------------------------
(* Configuration read by MemoryManager.__init__ *)

working_memory_ttl == 1
short_term_memory_ttl == 24
long_term_memory_threshold == 7
\* max_items of the three tiers, one value per configuration
working_memory_max_items == scenario.max_items
short_term_memory_max_items == scenario.max_items
long_term_memory_max_items == scenario.max_items

\* seconds per day in the SQL expression EXTRACT(EPOCH ...)/86400.0, in hours
DayLen == 24

----------------------------------------------------------------------------
(* Values *)

NoOwner == "none"
NoConv == "none"
NoTier == "none"
NoQuery == "none"
NoExpiry == -1
NoImportance == -1

Tiers == {"working", "short_term", "long_term"}
Owners == {"u1", "u2"}
\* conversation ids that parse as a UUID, and one string that does not
ValidConvs == {"c1"}
BadConv == "bad"
Importances == {3, 8}
Contents == {"a"}
TickSteps == {working_memory_ttl, short_term_memory_ttl}

Max(a, b) == IF a >= b THEN a ELSE b

----------------------------------------------------------------------------
(* The table memory_items                                                   *)

\* The columns the INSERT of add_to_memory does not name take the defaults
\* of the table, whose definition is not part of the sources: no access
\* yet, created and last accessed at the time of the INSERT.
ColumnDefaults(t) ==
    [access_count |-> 0, created_at |-> t, last_accessed_at |-> t]

\* A row of memory_items as the INSERT of add_to_memory creates it
NewRow(id, user_id, conv_id, content, memory_type, importance, expires_at, t) ==
    [id |-> id, user_id |-> user_id, conversation_id |-> conv_id,
     content |-> content, memory_type |-> memory_type,
     importance |-> importance, expires_at |-> expires_at,
     access_count |-> ColumnDefaults(t).access_count,
     created_at |-> ColumnDefaults(t).created_at,
     last_accessed_at |-> ColumnDefaults(t).last_accessed_at]

Ids(rows) == {r.id : r \in rows}

RowOf(rows, id) == CHOOSE r \in rows : r.id = id

\* uuid.UUID(conversation_id) under try/except ValueError: the parsed id,
\* or no id at all when the string is malformed (a warning is logged)
ParseConv(conversation_id) ==
    IF conversation_id \in ValidConvs THEN conversation_id ELSE NoConv

\* memory_type not in [...]: default to "working"
ValidTier(memory_type) ==
    IF memory_type \in Tiers THEN memory_type ELSE "working"

\* expires_at of a new item
ExpiresAt(memory_type, t) ==
    IF memory_type = "working" THEN t + working_memory_ttl
    ELSE IF memory_type = "short_term" THEN t + short_term_memory_ttl
    ELSE NoExpiry

----------------------------------------------------------------------------
(* _prune_memory                                                            *)

PruneLimit(memory_type) ==
    CASE memory_type = "working" -> working_memory_max_items
      [] memory_type = "short_term" -> short_term_memory_max_items
      [] memory_type = "long_term" -> long_term_memory_max_items
      [] OTHER -> 0

\* WHERE memory_type = '...' [AND user_id = ...]
PruneScope(rows, memory_type, user_id) ==
    {r \in rows : /\ r.memory_type = memory_type
                  /\ (user_id # NoOwner => r.user_id = user_id)}

\* A prune that orders by created_at alone: ORDER BY created_at ASC
PruneOrderOldestFirst(a, b) == a.created_at <= b.created_at

\* ORDER BY importance ASC, last_accessed_at ASC, created_at ASC
PruneOrderLE(a, b) ==
    \/ a.importance < b.importance
    \/ /\ a.importance = b.importance
       /\ \/ a.last_accessed_at < b.last_accessed_at
          \/ /\ a.last_accessed_at = b.last_accessed_at
             /\ a.created_at <= b.created_at

\* A prune that stops one row short: excess = count - max_items - 1
PruneExcessOneShort(count, max_items) == count - max_items - 1

\* excess = count - max_items
PruneExcess(count, max_items) == count - max_items

\* The sets of rows the DELETE ... LIMIT excess may remove: the first
\* `excess` rows of the scope in the order; rows equal in the three sort
\* keys come in the order the database picks.
PruneVictims(rows, memory_type, user_id) ==
    LET scope == PruneScope(rows, memory_type, user_id)
        max_items == PruneLimit(memory_type)
        count == Cardinality(scope)
    IN  IF max_items <= 0 \/ ~(count > max_items) THEN {{}}
        ELSE {D \in SUBSET scope :
                /\ Cardinality(D) = PruneExcess(count, max_items)
                /\ \A d \in D : \A k \in scope \ D : PruneOrderLE(d, k)}

\* What became of the prune pass: no query issued, count within the limit,
\* rows deleted, or a query raised (caught and logged in _prune_memory).
PruneStatus(rows, memory_type, user_id, fail) ==
    LET max_items == PruneLimit(memory_type)
        count == Cardinality(PruneScope(rows, memory_type, user_id))
    IN  IF max_items <= 0 THEN "off"
        ELSE IF fail = "count" THEN "failed"
        ELSE IF ~(count > max_items) THEN "within"
        ELSE IF fail = "delete" THEN "failed"
        ELSE "deleted"

\* The table after the prune pass, one per choice of the database.
PruneMemory(rows, memory_type, user_id, fail) ==
    IF PruneStatus(rows, memory_type, user_id, fail) = "deleted"
    THEN {rows \ D : D \in PruneVictims(rows, memory_type, user_id)}
    ELSE {rows}

\* The query of the prune pass that raised, if one did
PruneFault(rows, memory_type, user_id, fail) ==
    IF PruneStatus(rows, memory_type, user_id, fail) = "failed"
    THEN fail ELSE "no"

----------------------------------------------------------------------------
(* What the last call did: the call, its result, the rows it returned,     *)
(* the table before it (pre), the table after the handler's own statement  *)
(* and before the prune pass (mid), and the prune pass.                    *)

NoPrune == [status |-> "none", memory_type |-> NoTier, user_id |-> NoOwner]

NoArgs == [id |-> 0, memory_type |-> NoTier, user_id |-> NoOwner,
           conversation_id |-> NoConv, importance |-> NoImportance,
           query |-> NoQuery]

NoCall ==
    [op |-> "none", args |-> NoArgs, result |-> "none", n |-> 0, rows |-> {},
     pre |-> {}, mid |-> {}, prune |-> NoPrune, fault |-> "no"]

\* fault: the collaborator call that raised during the call, if one did
Call(op, args, result, n, rows, pre, mid, prune, fault) ==
    [op |-> op, args |-> args, result |-> result, n |-> n, rows |-> rows,
     pre |-> pre, mid |-> mid, prune |-> prune, fault |-> fault]

\* The clock of the database (NOW()) and of the process (datetime.utcnow());
\* the cache drops an entry when the ttl it was set with has passed.
Tick(d) ==
    /\ ticks < scenario.maxTicks
    /\ ticks' = ticks + 1
    /\ now' = now + d
    /\ cache' = {e \in cache : e.expires_at > now'}
    /\ last' = NoCall
    /\ UNCHANGED <<store, nextId, scenario>>

----------------------------------------------------------------------------
(* add_to_memory                                                            *)

AddFails == {"no", "insert", "cache", "count", "delete"}

\* The value add_to_memory returns: the except clause around the INSERT,
\* the cache write and the prune call turns a raised error into None.
AddResult(memory_type, fail) ==
    IF fail = "insert" \/ (memory_type = "working" /\ fail = "cache")
    THEN "none" ELSE "item"

\* cache_key = f"memory:{memory_type}:{user_id}:{conversation_id}:{memory_id}"
CacheEntry(memory_type, user_id, conversation_id, memory_id, expires_at) ==
    [memory_type |-> memory_type, user_id |-> user_id,
     conversation_id |-> conversation_id, id |-> memory_id,
     expires_at |-> expires_at]

AddToMemory(content, memory_type_in, user_id, conversation_id, importance, fail) ==
    LET args == [NoArgs EXCEPT !.id = nextId,
                                !.memory_type = ValidTier(memory_type_in),
                                !.user_id = user_id,
                                !.importance = importance]
    IN
    IF content = "" THEN
        \* empty content: nothing is stored, None is returned
        /\ last' = Call("add", NoArgs, "none", 0, {}, store, store, NoPrune,
                        "no")
        /\ UNCHANGED <<store, cache, now, ticks, nextId, scenario>>
    ELSE
        LET memory_type == ValidTier(memory_type_in)
            expires_at == ExpiresAt(memory_type, now)
            conv_id == ParseConv(conversation_id)
            row == NewRow(nextId, user_id, conv_id, content, memory_type,
                          importance, expires_at, now)
            inserted == store \cup {row}
        IN
        IF fail = "insert" THEN
            /\ last' = Call("add", NoArgs, AddResult(memory_type, fail), 0,
                            {}, store, store, NoPrune, "insert")
            /\ UNCHANGED <<store, cache, now, ticks, nextId, scenario>>
        ELSE IF memory_type = "working" /\ fail = "cache" THEN
            \* the row is inserted, the cache write raises, the prune is skipped
            /\ store' = inserted
            /\ nextId' = nextId + 1
            /\ last' = Call("add", args, AddResult(memory_type, fail), 0,
                            {}, store, inserted, NoPrune, "cache")
            /\ UNCHANGED <<cache, now, ticks, scenario>>
        ELSE
            /\ nextId' = nextId + 1
            /\ cache' = IF memory_type = "working"
                        THEN cache \cup {CacheEntry(memory_type, user_id,
                                 conversation_id, nextId,
                                 now + working_memory_ttl)}
                        ELSE cache
            /\ store' \in PruneMemory(inserted, memory_type, user_id, fail)
            /\ last' = Call("add", args, AddResult(memory_type, fail), 0,
                            {}, store, inserted,
                            [status |-> PruneStatus(inserted, memory_type,
                                                    user_id, fail),
                             memory_type |-> memory_type,
                             user_id |-> user_id],
                            PruneFault(inserted, memory_type, user_id, fail))
            /\ UNCHANGED <<now, ticks, scenario>>

TierInputs == Tiers \cup {"bogus"}
OwnerInputs == Owners \cup {NoOwner}
ConvInputs == ValidConvs \cup {NoConv, BadConv}

\* add_to_memory("") with the defaults of the other parameters, and the
\* calls with content; the calls a scenario sc makes draw their arguments
\* from the sets of sc.
Add(sc) ==
    /\ nextId <= sc.maxId
    /\ \/ AddToMemory("", "working", NoOwner, NoConv, 5, "no")
       \/ \E content \in Contents, memory_type \in sc.addTiers,
             user_id \in sc.owners, conversation_id \in sc.addConvs,
             importance \in sc.importances, fail \in sc.fails \cap AddFails :
              AddToMemory(content, memory_type, user_id, conversation_id,
                          importance, fail)

----------------------------------------------------------------------------
(* get_memory: _get_recent_memory and _semantic_memory_search               *)

\* similarity(content, query) of pg_trgm, in tenths, and the threshold of
\* the operator % (content % query)
Similarity(content, query) == IF content = query THEN 10 ELSE 0

TrgmThreshold == 3

\* The conditions both searches build, ending with the expiry condition
\* A search whose expiry condition reads expires_at >= NOW()
MatchesAtExpiry(r, memory_type, user_id, conversation_id, min_importance, t) ==
    /\ memory_type # NoTier => r.memory_type = memory_type
    /\ user_id # NoOwner => r.user_id = user_id
    /\ (conversation_id # NoConv /\ ParseConv(conversation_id) # NoConv)
          => r.conversation_id = ParseConv(conversation_id)
    /\ min_importance > 0 => r.importance >= min_importance
    /\ (r.expires_at = NoExpiry \/ r.expires_at >= t)

\* (expires_at IS NULL OR expires_at > NOW()).
Matches(r, memory_type, user_id, conversation_id, min_importance, t) ==
    /\ memory_type # NoTier => r.memory_type = memory_type
    /\ user_id # NoOwner => r.user_id = user_id
    /\ (conversation_id # NoConv /\ ParseConv(conversation_id) # NoConv)
          => r.conversation_id = ParseConv(conversation_id)
    /\ min_importance > 0 => r.importance >= min_importance
    /\ (r.expires_at = NoExpiry \/ r.expires_at > t)

\* ORDER BY importance DESC, last_accessed_at DESC, created_at DESC
RecentOrderGE(a, b) ==
    \/ a.importance > b.importance
    \/ /\ a.importance = b.importance
       /\ \/ a.last_accessed_at > b.last_accessed_at
          \/ /\ a.last_accessed_at = b.last_accessed_at
             /\ a.created_at >= b.created_at

\* similarity * (1 - recency_weight) + (1/(days_old + 1)) * recency_weight,
\* with days_old = (NOW() - created_at)/86400; the scores of two rows are
\* compared over the common denominator 100 * Age(a) * Age(b).
Age(r, t) == (t - r.created_at) + DayLen

ScoreOver(r, other, query, recency_weight, t) ==
    Similarity(r.content, query) * (10 - recency_weight)
        * Age(r, t) * Age(other, t)
    + 10 * recency_weight * DayLen * Age(other, t)

\* ORDER BY score DESC, importance DESC
SemanticOrderGE(a, b, query, recency_weight, t) ==
    \/ ScoreOver(a, b, query, recency_weight, t)
         > ScoreOver(b, a, query, recency_weight, t)
    \/ /\ ScoreOver(a, b, query, recency_weight, t)
            = ScoreOver(b, a, query, recency_weight, t)
       /\ a.importance >= b.importance

\* get_memory dispatches on the query: semantic search when it is given
IsSemantic(query) == query # NoQuery

\* The rows the SELECT ... ORDER BY ... LIMIT returns (as a set; rows equal
\* in the sort keys come in the order the database picks).
Selected(rows, query, memory_type, user_id, conversation_id, limit, min_importance, recency_weight, t) ==
    LET found == {r \in rows :
                    /\ Matches(r, memory_type, user_id, conversation_id,
                               min_importance, t)
                    /\ IsSemantic(query)
                          => Similarity(r.content, query) > TrgmThreshold}
        GE(a, b) == IF IsSemantic(query)
                    THEN SemanticOrderGE(a, b, query, recency_weight, t)
                    ELSE RecentOrderGE(a, b)
        k == IF Cardinality(found) < limit THEN Cardinality(found) ELSE limit
    IN  {T \in SUBSET found :
            /\ Cardinality(T) = k
            /\ \A x \in T : \A y \in found \ T : GE(x, y)}

\* UPDATE memory_items SET access_count = access_count + 1,
\* last_accessed_at = NOW() WHERE id IN (...)
UpdateAccessCount(rows, memory_ids, t) ==
    {IF r.id \in memory_ids
     THEN [r EXCEPT !.access_count = r.access_count + 1,
                    !.last_accessed_at = t]
     ELSE r : r \in rows}

GetFails == {"no", "select", "update"}

\* A get whose access-count update lets its error reach the except clause
\* of the search
GetResultUpdateUncaught(fail) == IF fail # "no" THEN "error" ELSE "rows"

\* The except clause of both searches returns [] when the SELECT raises;
\* _update_access_count catches and logs its own error.
GetResult(fail) == IF fail = "select" THEN "error" ELSE "rows"

GetMemory(query, memory_type, user_id, conversation_id, limit, min_importance, recency_weight, fail) ==
    LET args == [NoArgs EXCEPT !.query = query,
                                !.memory_type = memory_type,
                                !.user_id = user_id,
                                !.conversation_id = conversation_id]
    IN
    IF fail = "select" THEN
        /\ last' = Call("get", args, GetResult(fail), 0, {}, store, store,
                        NoPrune, "select")
        /\ UNCHANGED <<store, cache, now, ticks, nextId, scenario>>
    ELSE
        \E T \in Selected(store, query, memory_type, user_id,
                          conversation_id, limit, min_importance,
                          recency_weight, now) :
            /\ \A r \in T : r.access_count < MaxAccess
            /\ store' = IF T = {} \/ fail = "update" THEN store
                        ELSE UpdateAccessCount(store, Ids(T), now)
            /\ last' = Call("get", args, GetResult(fail), Cardinality(T), T,
                            store, store, NoPrune,
                            IF T # {} /\ fail = "update" THEN "update"
                            ELSE "no")
            /\ UNCHANGED <<cache, now, ticks, nextId, scenario>>

Queries == {NoQuery, "a"}
Limits == {1, 10}
MinImportances == {0, 8}
RecencyWeights == {0, 10}

Get(sc) ==
    \E query \in sc.queries, memory_type \in sc.filterTiers,
       user_id \in sc.owners, conversation_id \in sc.filterConvs,
       limit \in sc.limits, min_importance \in sc.minImportances,
       fail \in sc.fails \cap GetFails :
      \E recency_weight \in IF query = NoQuery THEN {5} ELSE RecencyWeights :
        GetMemory(query, memory_type, user_id, conversation_id, limit,
                  min_importance, recency_weight, fail)

----------------------------------------------------------------------------
(* promote_to_long_term                                                     *)

PromoteFails == {"no", "select", "update", "count", "delete"}

\* A promote that keeps the current importance when none is given
PromotedImportanceKept(importance, new_importance) ==
    IF new_importance # NoImportance THEN new_importance ELSE importance

\* importance = new_importance if new_importance is not None
\*              else max(memory["importance"], self.long_term_memory_threshold)
PromotedImportance(importance, new_importance) ==
    IF new_importance # NoImportance THEN new_importance
    ELSE Max(importance, long_term_memory_threshold)

\* A promote whose UPDATE leaves expires_at as it was
PromoteRowKeepsExpiry(r, importance) ==
    [r EXCEPT !.memory_type = "long_term", !.importance = importance]

\* UPDATE memory_items SET memory_type = 'long_term', importance = $1,
\* expires_at = NULL WHERE id = $2
PromoteRow(r, importance) ==
    [r EXCEPT !.memory_type = "long_term", !.importance = importance,
              !.expires_at = NoExpiry]

\* An update of a long_term item that also writes memory_type, with the
\* default tier of add_to_memory
UpdateImportanceResetsTier(r, new_importance) ==
    IF new_importance # NoImportance /\ new_importance # r.importance
    THEN [r EXCEPT !.importance = new_importance, !.memory_type = "working"]
    ELSE r

\* An update of a long_term item that raises the importance only
UpdateImportanceRaiseOnly(r, new_importance) ==
    IF new_importance # NoImportance /\ new_importance > r.importance
    THEN [r EXCEPT !.importance = new_importance]
    ELSE r

\* The branch for an item that is long_term already:
\* UPDATE memory_items SET importance = $1 WHERE id = $2, when a new
\* importance is given and differs
UpdateImportance(r, new_importance) ==
    IF new_importance # NoImportance /\ new_importance # r.importance
    THEN [r EXCEPT !.importance = new_importance]
    ELSE r

\* The value of the branch for an item that is long_term already
AlreadyLongTermResult == "true"

\* The value the except clause of promote_to_long_term returns
PromoteErrorResult == "false"

ReplaceRow(rows, old, new) == (rows \ {old}) \cup {new}

PromoteToLongTerm(memory_id, new_importance, fail) ==
    LET args == [NoArgs EXCEPT !.id = memory_id,
                                !.importance = new_importance]
    IN
    IF fail = "select" THEN
        /\ last' = Call("promote", args, PromoteErrorResult, 0, {}, store,
                        store, NoPrune, "select")
        /\ UNCHANGED <<store, cache, now, ticks, nextId, scenario>>
    ELSE IF memory_id \notin Ids(store) THEN
        \* not found
        /\ last' = Call("promote", args, "false", 0, {}, store, store,
                        NoPrune, "no")
        /\ UNCHANGED <<store, cache, now, ticks, nextId, scenario>>
    ELSE
        LET memory == RowOf(store, memory_id)
        IN
        IF memory.memory_type = "long_term" THEN
            LET updated == UpdateImportance(memory, new_importance)
            IN  IF updated # memory /\ fail = "update" THEN
                    /\ last' = Call("promote", args, PromoteErrorResult, 0,
                                    {}, store, store, NoPrune, "update")
                    /\ UNCHANGED <<store, cache, now, ticks, nextId, scenario>>
                ELSE
                    /\ store' = ReplaceRow(store, memory, updated)
                    /\ last' = Call("promote", args, AlreadyLongTermResult,
                                    0, {}, store, store', NoPrune, "no")
                    /\ UNCHANGED <<cache, now, ticks, nextId, scenario>>
        ELSE IF fail = "update" THEN
            /\ last' = Call("promote", args, PromoteErrorResult, 0, {},
                            store, store, NoPrune, "update")
            /\ UNCHANGED <<store, cache, now, ticks, nextId, scenario>>
        ELSE
            LET promoted ==
                    ReplaceRow(store, memory,
                        PromoteRow(memory,
                            PromotedImportance(memory.importance,
                                               new_importance)))
            IN  /\ store' \in PruneMemory(promoted, "long_term",
                                          memory.user_id, fail)
                /\ last' = Call("promote", args, "true", 0, {}, store,
                                promoted,
                                [status |-> PruneStatus(promoted,
                                     "long_term", memory.user_id, fail),
                                 memory_type |-> "long_term",
                                 user_id |-> memory.user_id],
                                PruneFault(promoted, "long_term",
                                           memory.user_id, fail))
                /\ UNCHANGED <<cache, now, ticks, nextId, scenario>>

NewImportances == {NoImportance, 3, 8}

Promote(sc) ==
    \E memory_id \in 1..sc.maxId, new_importance \in sc.newImportances,
       fail \in sc.fails \cap PromoteFails :
        PromoteToLongTerm(memory_id, new_importance, fail)

----------------------------------------------------------------------------
(* forget and forget_all                                                    *)

DeleteFails == {"no", "delete"}

\* forget returns True after the DELETE, False from its except clause
ForgetResult(fail) == IF fail = "delete" THEN "false" ELSE "true"

\* DELETE FROM memory_items WHERE id = $1
Forget(memory_id, fail) ==
    /\ store' = IF fail = "delete" THEN store
                ELSE {r \in store : r.id # memory_id}
    /\ last' = Call("forget", [NoArgs EXCEPT !.id = memory_id],
                    ForgetResult(fail), 0, {}, store, store', NoPrune,
                    IF fail = "delete" THEN "delete" ELSE "no")
    /\ UNCHANGED <<cache, now, ticks, nextId, scenario>>

\* The conditions forget_all builds from the filters that are given; a
\* conversation id that is not a UUID adds no condition.
ForgetAllConditions(user_id, conversation_id, memory_type) ==
    (IF user_id # NoOwner THEN {"user_id"} ELSE {})
    \cup (IF conversation_id # NoConv /\ ParseConv(conversation_id) # NoConv
          THEN {"conversation_id"} ELSE {})
    \cup (IF memory_type # NoTier THEN {"memory_type"} ELSE {})

\* A forget_all without the refusal: no condition, no WHERE clause
ForgetAllRowsUnguarded(rows, user_id, conversation_id, memory_type) ==
    LET conditions ==
            ForgetAllConditions(user_id, conversation_id, memory_type)
    IN  {r \in rows :
            /\ "user_id" \in conditions => r.user_id = user_id
            /\ "conversation_id" \in conditions
                  => r.conversation_id = ParseConv(conversation_id)
            /\ "memory_type" \in conditions
                  => r.memory_type = memory_type}

\* DELETE FROM memory_items WHERE ... RETURNING id
ForgetAllRows(rows, user_id, conversation_id, memory_type) ==
    LET conditions ==
            ForgetAllConditions(user_id, conversation_id, memory_type)
    IN  IF conditions = {} THEN {}
        ELSE {r \in rows :
                /\ "user_id" \in conditions => r.user_id = user_id
                /\ "conversation_id" \in conditions
                      => r.conversation_id = ParseConv(conversation_id)
                /\ "memory_type" \in conditions
                      => r.memory_type = memory_type}

\* return 0 when no condition was built; the number of rows the DELETE
\* returns; 0 from the except clause
ForgetAllResult(conditions, fail) ==
    IF conditions # {} /\ fail = "delete" THEN "error" ELSE "count"

ForgetAll(user_id, conversation_id, memory_type, fail) ==
    LET args == [NoArgs EXCEPT !.user_id = user_id,
                                !.conversation_id = conversation_id,
                                !.memory_type = memory_type]
        conditions ==
            ForgetAllConditions(user_id, conversation_id, memory_type)
        deleted == IF fail = "delete" THEN {}
                   ELSE ForgetAllRows(store, user_id, conversation_id,
                                      memory_type)
    IN  /\ store' = store \ deleted
        /\ last' = Call("forget_all", args,
                        ForgetAllResult(conditions, fail),
                        Cardinality(deleted), deleted, store, store',
                        NoPrune,
                        IF conditions # {} /\ fail = "delete"
                        THEN "delete" ELSE "no")
        /\ UNCHANGED <<cache, now, ticks, nextId, scenario>>

ForgetOne(sc) ==
    \E memory_id \in 1..sc.maxId, fail \in sc.fails \cap DeleteFails :
        Forget(memory_id, fail)

ForgetEvery(sc) ==
    \E user_id \in sc.owners, conversation_id \in sc.filterConvs,
       memory_type \in sc.filterTiers, fail \in sc.fails \cap DeleteFails :
        ForgetAll(user_id, conversation_id, memory_type, fail)

----------------------------------------------------------------------------
(* Specifications                                                           *)

AllFails == {"no", "insert", "cache", "select", "update", "count", "delete"}

\* One deployment: the max_items of its configuration, the arguments its
\* callers pass, the calls of the collaborators that may raise, and how the
\* clock advances.
\*
\* Enough inserts to take a scope two over its capacity, in one tier.
ScenarioDeep ==
    [name |-> "deep", max_items |-> 1, maxId |-> MaxId, maxTicks |-> MaxTicks,
     tickSteps |-> {working_memory_ttl},
     owners |-> {NoOwner, "u1"}, addTiers |-> {"long_term"},
     addConvs |-> {NoConv}, filterTiers |-> {NoTier},
     filterConvs |-> {NoConv}, newImportances |-> {NoImportance, 8},
     queries |-> Queries, limits |-> {10}, minImportances |-> {0},
     importances |-> Importances,
     fails |-> {"no"}]

\* Every tier, and the clock passing both ttls.
ScenarioTiers ==
    [name |-> "tiers", max_items |-> 1, maxId |-> 2, maxTicks |-> 1,
     tickSteps |-> TickSteps,
     owners |-> {"u1"}, addTiers |-> TierInputs,
     addConvs |-> {NoConv}, filterTiers |-> Tiers \cup {NoTier},
     filterConvs |-> {NoConv}, newImportances |-> NewImportances,
     queries |-> Queries, limits |-> Limits,
     minImportances |-> MinImportances,
     importances |-> Importances,
     fails |-> {"no"}]

\* Several owners and conversations.
ScenarioOwners ==
    [name |-> "owners", max_items |-> 1, maxId |-> 2, maxTicks |-> 0,
     tickSteps |-> {working_memory_ttl},
     owners |-> OwnerInputs, addTiers |-> {"working"},
     addConvs |-> ConvInputs, filterTiers |-> {NoTier, "working"},
     filterConvs |-> ConvInputs, newImportances |-> {NoImportance},
     queries |-> {NoQuery}, limits |-> {10}, minImportances |-> {0},
     importances |-> {3},
     fails |-> {"no"}]

\* Collaborators that raise.
ScenarioFaults ==
    [name |-> "faults", max_items |-> 1, maxId |-> 2, maxTicks |-> 0,
     tickSteps |-> {working_memory_ttl},
     owners |-> {"u1"}, addTiers |-> {"working", "long_term"},
     addConvs |-> {NoConv}, filterTiers |-> {NoTier},
     filterConvs |-> {NoConv}, newImportances |-> {NoImportance, 3},
     queries |-> {NoQuery}, limits |-> {10}, minImportances |-> {0},
     importances |-> {3},
     fails |-> AllFails]

\* The max_items of the configuration varies.
ScenarioCapacity ==
    [name |-> "capacity", max_items |-> MaxItems, maxId |-> 3, maxTicks |-> 0,
     tickSteps |-> {working_memory_ttl},
     owners |-> {NoOwner, "u1"}, addTiers |-> {"short_term"},
     addConvs |-> {NoConv}, filterTiers |-> {NoTier},
     filterConvs |-> {NoConv}, newImportances |-> {NoImportance},
     queries |-> {NoQuery}, limits |-> {10}, minImportances |-> {0},
     importances |-> Importances,
     fails |-> {"no"}]

Scenarios ==
    {ScenarioDeep, ScenarioTiers, ScenarioOwners, ScenarioFaults,
     ScenarioCapacity}

Init ==
    /\ store = {}
    /\ cache = {}
    /\ now = 0
    /\ ticks = 0
    /\ nextId = 1
    /\ last = NoCall
    /\ scenario \in Scenarios
    /\ retrieval_cache = {}
    /\ retrieval_now = 0
    /\ retrieval_last = NoRetrieval
    /\ reflection = NoReflection
    /\ segmenter = NoChunking
    /\ adders = NoAdders
    /\ documents = NoDocuments
    /\ limiter = NoLimiter

MemoryNext(sc) ==
    \/ \E d \in sc.tickSteps : Tick(d)
    \/ Add(sc)
    \/ Get(sc)
    \/ Promote(sc)
    \/ ForgetOne(sc)
    \/ ForgetEvery(sc)

Next == MemoryNext(scenario) /\ UNCHANGED <<retriever_vars, reflection_vars, segmenter_vars, adder_vars, document_vars, limiter_vars>>

Spec == Init /\ [][Next]_vars

----------------------------------------------------------------------------
(* Properties of the memory manager                                         *)

\* The items of a tier, of one owner when an owner is given
ScopeItems(rows, memory_type, user_id) ==
    {r \in rows : r.memory_type = memory_type
                  /\ (user_id = NoOwner \/ r.user_id = user_id)}

Capacity(memory_type) ==
    CASE memory_type = "working" -> working_memory_max_items
      [] memory_type = "short_term" -> short_term_memory_max_items
      [] OTHER -> long_term_memory_max_items

\* a is not above b in (importance, lastAccessedAt, createdAt) ascending
LowerOrEqual(a, b) ==
    <<a.importance, a.last_accessed_at, a.created_at>>
        = <<b.importance, b.last_accessed_at, b.created_at>>
    \/ a.importance < b.importance
    \/ (a.importance = b.importance
        /\ a.last_accessed_at < b.last_accessed_at)
    \/ (a.importance = b.importance
        /\ a.last_accessed_at = b.last_accessed_at
        /\ a.created_at < b.created_at)

\* The prune pass of the last call ran to its end
PrunePassed == last.prune.status \in {"within", "deleted"}

\* C1: after an add or promote whose prune pass ran, the pruned (tier,
\* owner) scope holds at most the capacity of the tier; an add that returns
\* the item and a promote that moves an item have reached the prune pass.
C1_PruneKeepsCapacity ==
    /\ (last.op \in {"add", "promote"} /\ PrunePassed)
          => Cardinality(ScopeItems(store, last.prune.memory_type,
                                    last.prune.user_id))
                <= Capacity(last.prune.memory_type)
    /\ (last.op = "add" /\ last.result = "item")
          => last.prune.status # "none"
    /\ (last.op = "promote" /\ last.result = "true" /\ last.mid # last.pre)
          => (last.prune.status # "none"
              \/ RowOf(last.pre, last.args.id).memory_type = "long_term")

C1_Witness ==
    /\ last.op = "add"
    /\ last.prune.status = "deleted"
    /\ Cardinality(ScopeItems(store, last.prune.memory_type,
                              last.prune.user_id))
          = Capacity(last.prune.memory_type)

\* C2: when an add leaves its scope k > 0 items over capacity, the prune
\* deletes k items of the scope, none of them above an item it keeps in
\* (importance, lastAccessedAt, createdAt) ascending, and keeps exactly
\* capacity items; nothing else is deleted, and nothing when k <= 0.
C2_PruneDeletesLowest ==
    (last.op = "add" /\ last.result = "item" /\ PrunePassed) =>
        LET scope == ScopeItems(last.mid, last.prune.memory_type,
                                last.prune.user_id)
            k == Cardinality(scope) - Capacity(last.prune.memory_type)
            deleted == last.mid \ store
        IN  /\ store \subseteq last.mid
            /\ deleted \subseteq scope
            /\ Cardinality(deleted) = (IF k > 0 THEN k ELSE 0)
            /\ k > 0 => Cardinality(scope \ deleted)
                          = Capacity(last.prune.memory_type)
            /\ \A d \in deleted : \A s \in scope \ deleted :
                  LowerOrEqual(d, s)

C2_Witness ==
    /\ last.op = "add"
    /\ last.result = "item"
    /\ last.prune.status = "deleted"
    /\ Cardinality(last.mid \ store) >= 2
    /\ \E d \in last.mid \ store : \E s \in store :
          /\ s.memory_type = d.memory_type
          /\ s.importance = d.importance
          /\ d.last_accessed_at < s.last_accessed_at

\* C3: a stored item has no expiry exactly when its tier is long_term; an
\* item just added to working or short_term expires one ttl of its tier
\* after the add.
C3_ExpiryIffNotLongTerm ==
    /\ \A r \in store :
          (r.expires_at = NoExpiry) <=> (r.memory_type = "long_term")
    /\ (last.op = "add" /\ last.args.id \in Ids(store)) =>
          LET r == RowOf(store, last.args.id)
          IN  /\ r.memory_type = "working"
                    => r.expires_at = now + working_memory_ttl
              /\ r.memory_type = "short_term"
                    => r.expires_at = now + short_term_memory_ttl

C3_Witness ==
    /\ last.op = "promote"
    /\ last.result = "true"
    /\ \E b \in last.pre : \E r \in store :
          /\ b.id = last.args.id
          /\ r.id = b.id
          /\ b.memory_type = "short_term"
          /\ b.expires_at # NoExpiry
          /\ r.memory_type = "long_term"
          /\ r.expires_at = NoExpiry

\* The order of the tiers: working < short_term < long_term
TierRank(t) == CASE t = "working" -> 0 [] t = "short_term" -> 1 [] OTHER -> 2

\* C4: no step moves an item that stays stored to a lower tier (working <
\* short_term < long_term); once long_term an item is long_term until it
\* is deleted.
C4_TierNeverMovesDown ==
    [][\A b \in store : \A r \in store' :
          r.id = b.id =>
              TierRank(r.memory_type) >= TierRank(b.memory_type)]_vars

C4_Witness ==
    /\ last.op = "promote"
    /\ \E b \in last.pre : \E r \in store :
          /\ r.id = b.id
          /\ b.memory_type = "working"
          /\ r.memory_type = "long_term"
    /\ \E b \in last.pre : \E r \in store :
          /\ r.id = b.id
          /\ b.memory_type = "long_term"
          /\ r.memory_type = "long_term"

\* The last call is a promote that returned success on the item `b`, which
\* was not long_term before the call
PromotedFromBelow(b) ==
    /\ last.op = "promote"
    /\ last.result = "true"
    /\ b \in last.pre
    /\ b.id = last.args.id
    /\ b.memory_type # "long_term"

\* C5 as stated: after promote on a working or short_term item the item is
\* long_term, has no expiry, and its importance is at least the threshold:
\* max(current, threshold) without newImportance, newImportance with it.
C5_PromoteAsStated ==
    \A b \in last.pre : PromotedFromBelow(b) =>
        /\ b.id \in Ids(store)
        /\ LET r == RowOf(store, b.id)
           IN  /\ r.memory_type = "long_term"
               /\ r.expires_at = NoExpiry
               /\ r.importance >= long_term_memory_threshold
               /\ r.importance =
                     (IF last.args.importance = NoImportance
                      THEN Max(b.importance, long_term_memory_threshold)
                      ELSE last.args.importance)

\* C5 amended: promote on a working or short_term item makes it long_term
\* with no expiry and importance max(current, threshold), hence at least
\* the threshold, when newImportance is not given, and importance
\* newImportance, whatever its value, when it is given; the item is then
\* subject to the long_term prune of the same call, which may delete it.
C5_PromoteAmended ==
    \A b \in last.pre : PromotedFromBelow(b) =>
        /\ b.id \in Ids(last.mid)
        /\ LET r == RowOf(last.mid, b.id)
           IN  /\ r.memory_type = "long_term"
               /\ r.expires_at = NoExpiry
               /\ last.args.importance = NoImportance =>
                     /\ r.importance >= long_term_memory_threshold
                     /\ r.importance =
                           Max(b.importance, long_term_memory_threshold)
               /\ last.args.importance # NoImportance =>
                     r.importance = last.args.importance
               /\ r \in store \/ r \in last.mid \ store
               /\ r \notin store =>
                     /\ last.prune.status = "deleted"
                     /\ last.prune.memory_type = "long_term"
        /\ \A r \in store : r.id = b.id => r \in last.mid

C5_Witness ==
    \E b \in last.pre : \E r \in store :
        /\ PromotedFromBelow(b)
        /\ r.id = b.id
        /\ last.args.importance = NoImportance
        /\ b.importance < long_term_memory_threshold
        /\ r.importance = long_term_memory_threshold

\* The last call is a promote, with no collaborator failing, on the item
\* `b`, which was long_term already
PromotedAgain(b) ==
    /\ last.op = "promote"
    /\ last.fault = "no"
    /\ b \in last.pre
    /\ b.id = last.args.id
    /\ b.memory_type = "long_term"

\* C6: promote on an item that is long_term already returns success,
\* leaves its tier, its expiry and every other item as they were, sets its
\* importance to newImportance when that is given, and a second promote
\* with the same arguments would change nothing.
C6_PromoteIdempotent ==
    \A b \in last.pre : PromotedAgain(b) =>
        /\ last.result = "true"
        /\ b.id \in Ids(store)
        /\ LET r == RowOf(store, b.id)
           IN  /\ r.memory_type = b.memory_type
               /\ r.expires_at = b.expires_at
               /\ r.importance =
                     (IF last.args.importance = NoImportance
                      THEN b.importance ELSE last.args.importance)
               /\ store \ {r} = last.pre \ {b}
               /\ UpdateImportance(r, last.args.importance) = r

C6_Witness ==
    \E b \in last.pre : \E r \in store :
        /\ PromotedAgain(b)
        /\ r.id = b.id
        /\ last.result = "true"
        /\ last.args.importance # NoImportance
        /\ r.importance # b.importance

\* C7 as stated: every item a get returns carries its access count
\* increased by one and the time of the get as lastAccessedAt, the stored
\* item agrees with it, and the items not returned are unchanged.
C7_GetReturnsUpdatedAccess ==
    (last.op = "get" /\ last.fault = "no") =>
        /\ \A x \in last.rows :
              LET b == RowOf(last.pre, x.id)
                  r == RowOf(store, x.id)
              IN  /\ x.access_count = b.access_count + 1
                  /\ x.last_accessed_at = now
                  /\ r.access_count = x.access_count
                  /\ r.last_accessed_at = x.last_accessed_at
        /\ \A b \in last.pre : b.id \notin Ids(last.rows) => b \in store

\* An item is expired at time t
Expired(r, t) == r.expires_at # NoExpiry /\ r.expires_at <= t

\* C8: a get, with or without a query, returns no item whose expiry is at
\* or before the current time, and no long_term item is left out of a get
\* on the long_term tier whose limit admits every item.
C8_GetExcludesExpired ==
    /\ last.op = "get" => \A x \in last.rows : ~Expired(x, now)
    /\ \A query \in Queries :
          \A T \in Selected(store, query, "long_term", NoOwner, NoConv,
                            Cardinality(store) + 1, 0, 5, now) :
              /\ \A x \in T : ~Expired(x, now)
              /\ \A r \in store :
                    (r.memory_type = "long_term"
                     /\ (query # NoQuery => r.content = query)) => r \in T

C8_Witness ==
    /\ last.op = "get"
    /\ last.args.query # NoQuery
    /\ last.rows # {}
    /\ \E r \in store : Expired(r, now) /\ r.expires_at = now
    /\ \E x \in last.rows : x.expires_at # NoExpiry

\* C9: forgetAll with no owner, no conversation and no tier returns 0 and
\* leaves the store as it was.
C9_ForgetAllNoFilters ==
    (/\ last.op = "forget_all"
     /\ last.args.user_id = NoOwner
     /\ last.args.conversation_id = NoConv
     /\ last.args.memory_type = NoTier)
        => /\ last.result = "count"
           /\ last.n = 0
           /\ store = last.pre

C9_Witness ==
    /\ last.op = "forget_all"
    /\ last.args.user_id = NoOwner
    /\ last.args.conversation_id = NoConv
    /\ last.args.memory_type = NoTier
    /\ Cardinality(store) >= 2

\* The result that stands for a failure of the call
FailureResult(op) ==
    CASE op = "add" -> "none"
      [] op = "get" -> "error"
      [] op = "promote" -> "false"
      [] op = "forget" -> "false"
      [] op = "forget_all" -> "error"
      [] OTHER -> "none"

OwnFaults(op) ==
    CASE op = "add" -> {"insert", "cache"}
      [] op = "get" -> {"select"}
      [] op = "promote" -> {"select", "update"}
      [] op = "forget" -> {"delete"}
      [] op = "forget_all" -> {"delete"}
      [] OTHER -> {}

----------------------------------------------------------------------------
(* Part 2: Retriever                                                        *)

\* Bounds
\* number of candidates one search returns
MaxHits == 2
\* number of times the clock of the result cache advances
MaxRetrievalTicks == 1

\* Configuration read by Retriever.__init__
default_top_k == 2
hybrid_search_enabled == TRUE
reranking_enabled == FALSE
cache_enabled == TRUE
\* cache_ttl_seconds, in hours
cache_ttl == 1

\* Values
NoDoc == "None"
\* a document id that is falsy in Python: 0 or ""
ZeroDoc == "0"
NoChunk == -1
NoScore == -1
NoId == <<>>
NoTopK == 0
NoKey == "none"
NoHybrid == "none"

\* One candidate as the vector store returns it: with document_id and
\* chunk_index under "payload" (the shape _merge_results reads) or at the
\* top level (the shape of MockVectorStore.search_vectors)
VectorHit(shape, document_id, chunk_index, score) ==
    [shape |-> shape, document_id |-> document_id,
     chunk_index |-> chunk_index, score |-> score]

\* One candidate of the keyword search
KeywordHit(document_id, chunk_index, score) ==
    [document_id |-> document_id, chunk_index |-> chunk_index,
     score |-> score]

\* result.get("payload", {}).get("document_id") and ...get("chunk_index")
PayloadDoc(r) == IF r.shape = "payload" THEN r.document_id ELSE NoDoc
PayloadChunk(r) == IF r.shape = "payload" THEN r.chunk_index ELSE NoChunk

\* result.get("document_id") and result.get("chunk_index") of a candidate
TopDoc(r) == IF r.shape = "flat" THEN r.document_id ELSE NoDoc
TopChunk(r) == IF r.shape = "flat" THEN r.chunk_index ELSE NoChunk

\* doc_id and chunk_index is not None
Usable(doc_id, chunk_index) ==
    doc_id \notin {NoDoc, ZeroDoc} /\ chunk_index # NoChunk

\* key = f"{doc_id}:{chunk_index}"
MergeKey(doc_id, chunk_index) == <<doc_id, chunk_index>>

\* The entries of the dictionary `merged`, in insertion order
MergedEntry(key, doc_id, chunk_index, vector_score, keyword_score, combined_score) ==
    [id |-> key, document_id |-> doc_id, chunk_index |-> chunk_index,
     vector_score |-> vector_score, keyword_score |-> keyword_score,
     combined_score |-> combined_score, score_key |-> NoScore,
     content |-> FALSE]

\* Position of `key` in the dictionary, 0 when absent
KeyIndex(merged, key) ==
    IF \E i \in 1..Len(merged) : merged[i].id = key
    THEN CHOOSE i \in 1..Len(merged) : merged[i].id = key
    ELSE 0

\* merged[key] = value: a new key goes to the end, a key already present
\* keeps its position
DictSet(merged, key, value) ==
    IF KeyIndex(merged, key) = 0 THEN Append(merged, value)
    ELSE [merged EXCEPT ![KeyIndex(merged, key)] = value]

\* 0.7 * vector_score + 0.3 * keyword_score
CombinedBoth(vector_score, keyword_score) ==
    (7 * vector_score + 3 * keyword_score) \div 10

\* 0.3 * keyword_score
CombinedKeywordOnly(keyword_score) == (3 * keyword_score) \div 10

\* The first loop of _merge_results
RECURSIVE MergeVector(_, _)
MergeVector(merged, vector_results) ==
    IF vector_results = <<>> THEN merged
    ELSE LET result == Head(vector_results)
             doc_id == PayloadDoc(result)
             chunk_index == PayloadChunk(result)
             key == MergeKey(doc_id, chunk_index)
         IN  IF ~Usable(doc_id, chunk_index)
             THEN MergeVector(merged, Tail(vector_results))
             ELSE MergeVector(
                      DictSet(merged, key,
                          MergedEntry(key, doc_id, chunk_index, result.score,
                                      0, result.score)),
                      Tail(vector_results))

\* The second loop of _merge_results
RECURSIVE MergeKeyword(_, _)
MergeKeyword(merged, keyword_results) ==
    IF keyword_results = <<>> THEN merged
    ELSE LET result == Head(keyword_results)
             doc_id == result.document_id
             chunk_index == result.chunk_index
             key == MergeKey(doc_id, chunk_index)
             i == KeyIndex(merged, key)
         IN  IF ~Usable(doc_id, chunk_index)
             THEN MergeKeyword(merged, Tail(keyword_results))
             ELSE IF i # 0
             THEN MergeKeyword(
                      [merged EXCEPT
                          ![i].keyword_score = result.score,
                          ![i].combined_score =
                              CombinedBoth(merged[i].vector_score,
                                           result.score)],
                      Tail(keyword_results))
             ELSE MergeKeyword(
                      Append(merged,
                          MergedEntry(key, doc_id, chunk_index, 0,
                                      result.score,
                                      CombinedKeywordOnly(result.score))),
                      Tail(keyword_results))

\* key=lambda x: x["combined_score"]
SortKey(x) == x.combined_score

\* A descending sort that is not stable: x goes before the elements whose
\* key equals its own
InsertDescendingTiesFirst(sorted, x) ==
    LET n == Cardinality({i \in 1..Len(sorted) : SortKey(sorted[i]) > SortKey(x)})
    IN  SubSeq(sorted, 1, n) \o <<x>> \o SubSeq(sorted, n + 1, Len(sorted))

\* One step of a stable descending sort: x, which came after every element
\* of `sorted`, goes behind the elements whose key is at least its own
InsertDescending(sorted, x) ==
    LET n == Cardinality({i \in 1..Len(sorted) : SortKey(sorted[i]) >= SortKey(x)})
    IN  SubSeq(sorted, 1, n) \o <<x>> \o SubSeq(sorted, n + 1, Len(sorted))

\* results.sort(key=..., reverse=True): stable, descending
RECURSIVE SortDescending(_)
SortDescending(results) ==
    IF results = <<>> THEN <<>>
    ELSE InsertDescending(
             SortDescending(SubSeq(results, 1, Len(results) - 1)),
             results[Len(results)])

MergeResults(vector_results, keyword_results) ==
    SortDescending(MergeKeyword(MergeVector(<<>>, vector_results),
                                keyword_results))

\* _keyword_search: a placeholder that returns no candidate
KeywordSearch(query, top_k) == <<>>

\* _rerank_results: a placeholder that returns its input
RerankResults(query, results) == results

\* A candidate of the vector store as the steps after the search read it
RawRow(r) ==
    [id |-> NoId, document_id |-> TopDoc(r), chunk_index |-> TopChunk(r),
     vector_score |-> NoScore, keyword_score |-> NoScore,
     combined_score |-> NoScore, score_key |-> r.score, content |-> FALSE]

RawRows(vector_results) ==
    [i \in 1..Len(vector_results) |-> RawRow(vector_results[i])]

\* The rows of document_chunks
ChunkTable == {<<"d1", 0>>, <<"d2", 0>>}

\* A content fetch without the handlers of lines 405-423 and 443-466: a
\* query that raises loses the candidates
FetchChunkContentUnhandled(results, fail) ==
    IF fail = "fetch" THEN <<>>
    ELSE [i \in 1..Len(results) |->
            IF <<results[i].document_id, results[i].chunk_index>> \in ChunkTable
            THEN [results[i] EXCEPT !.content = TRUE]
            ELSE results[i]]

\* _fetch_chunk_content with _batch_fetch_chunks and _fetch_single_chunk:
\* a query that raises yields no content for its chunk
FetchChunkContent(results, fail) ==
    LET ids_to_fetch ==
            {<<results[i].document_id, results[i].chunk_index>> :
                i \in {j \in 1..Len(results) :
                          /\ results[j].document_id # NoDoc
                          /\ results[j].chunk_index # NoChunk}}
        contents == IF fail = "fetch" THEN {}
                    ELSE ids_to_fetch \cap ChunkTable
    IN  [i \in 1..Len(results) |->
            IF <<results[i].document_id, results[i].chunk_index>>
                   \in contents
            THEN [results[i] EXCEPT !.content = TRUE]
            ELSE results[i]]

\* result.get("combined_score") or result.get("vector_score") or 0
ProcessedScore(result) ==
    IF result.combined_score \notin {NoScore, 0} THEN result.combined_score
    ELSE IF result.vector_score \notin {NoScore, 0} THEN result.vector_score
    ELSE 0

\* _process_results
ProcessResults(results) ==
    [i \in 1..Len(results) |->
        [id |-> results[i].id, document_id |-> results[i].document_id,
         chunk_index |-> results[i].chunk_index,
         score |-> ProcessedScore(results[i]),
         content |-> results[i].content]]

\* The sequences over S of length at most n
SeqsUpTo(S, n) == UNION {[1..k -> S] : k \in 0..n}

\* top_k = top_k or self.default_top_k
EffectiveTopK(top_k) == IF top_k = NoTopK THEN default_top_k ELSE top_k

\* use_hybrid = self.hybrid_search_enabled if use_hybrid is None
UseHybrid(use_hybrid) ==
    IF use_hybrid = NoHybrid THEN hybrid_search_enabled
    ELSE use_hybrid = "true"

\* The entry of the result cache under "retrieval:<cache_key>": the value
\* CacheStore.get returns for it, None when there is none or it has expired
LiveEntries(entries, cache_key, t) ==
    {e \in entries : e.key = cache_key /\ e.expires_at > t}

\* _get_cached_results: the cached list, [] when there is no entry and
\* when the cache raises
GetCachedResults(entries, cache_key, t, fail) ==
    IF fail = "cache_get" \/ LiveEntries(entries, cache_key, t) = {}
    THEN <<>>
    ELSE (CHOOSE e \in LiveEntries(entries, cache_key, t) : TRUE).value

\* if cached_results: the cached list counts when it is not empty
CacheHit(cached_results) == cached_results # <<>>

\* _cache_results: cache_store.set(prefixed_key, results, expiry=cache_ttl);
\* an error of the cache is logged
CacheResults(entries, cache_key, results, t, fail) ==
    IF fail = "cache_set" THEN entries
    ELSE {e \in entries : e.key # cache_key}
         \cup {[key |-> cache_key, value |-> results,
                expires_at |-> t + cache_ttl]}

RetrieveFails == {"no", "cache_get", "embed", "vector", "fetch", "cache_set"}

\* What retrieve did: its arguments, whether it returned or raised, the
\* steps it performed, the candidates of the vector store, the result
RetrieveCall(top_k, use_hybrid, include_content, cache_key, fail, outcome, hit, steps, found, result, pre) ==
    [op |-> "retrieve", top_k |-> top_k, use_hybrid |-> use_hybrid,
     include_content |-> include_content, cache_key |-> cache_key,
     fault |-> fail, outcome |-> outcome, hit |-> hit, steps |-> steps,
     found |-> found, result |-> result, pre |-> pre]

\* The rows whose content _fetch_chunk_content asks for
HasIdsToFetch(results) ==
    \E i \in 1..Len(results) :
        results[i].document_id # NoDoc /\ results[i].chunk_index # NoChunk

Retrieve(query, top_k_in, use_hybrid_in, include_content, cache_key, found, fail) ==
    LET top_k == EffectiveTopK(top_k_in)
        use_hybrid == UseHybrid(use_hybrid_in)
        use_cache == cache_enabled /\ cache_key # NoKey
        cached_results ==
            IF use_cache
            THEN GetCachedResults(retrieval_cache, cache_key, retrieval_now,
                                  fail)
            ELSE <<>>
        first == IF use_cache THEN {"cache_get"} ELSE {}
        keyword_results == KeywordSearch(query, top_k)
        results == IF use_hybrid THEN MergeResults(found, keyword_results)
                   ELSE RawRows(found)
        reranked == IF reranking_enabled /\ Len(results) > 1
                    THEN RerankResults(query, results) ELSE results
        fetched == IF include_content THEN FetchChunkContent(reranked, fail)
                   ELSE reranked
        processed_results == ProcessResults(fetched)
        steps == first \cup {"embed", "vector"}
                 \cup (IF use_hybrid THEN {"keyword"} ELSE {})
                 \cup (IF reranking_enabled /\ Len(results) > 1
                       THEN {"rerank"} ELSE {})
                 \cup (IF include_content /\ HasIdsToFetch(reranked)
                       THEN {"fetch"} ELSE {})
                 \cup (IF use_cache THEN {"cache_set"} ELSE {})
    IN
    /\ Len(found) <= top_k
    /\ UNCHANGED retrieval_now
    /\ IF use_cache /\ CacheHit(cached_results) THEN
           /\ retrieval_last' =
                  RetrieveCall(top_k, use_hybrid, include_content, cache_key,
                               fail, "returned", TRUE, first, <<>>,
                               cached_results, retrieval_cache)
           /\ UNCHANGED retrieval_cache
       ELSE IF fail = "embed" THEN
           /\ retrieval_last' =
                  RetrieveCall(top_k, use_hybrid, include_content, cache_key,
                               fail, "raised", FALSE, first \cup {"embed"},
                               <<>>, <<>>, retrieval_cache)
           /\ UNCHANGED retrieval_cache
       ELSE IF fail = "vector" THEN
           /\ retrieval_last' =
                  RetrieveCall(top_k, use_hybrid, include_content, cache_key,
                               fail, "raised", FALSE,
                               first \cup {"embed", "vector"}, <<>>, <<>>,
                               retrieval_cache)
           /\ UNCHANGED retrieval_cache
       ELSE
           /\ retrieval_cache' =
                  IF use_cache
                  THEN CacheResults(retrieval_cache, cache_key,
                                    processed_results, retrieval_now, fail)
                  ELSE retrieval_cache
           /\ retrieval_last' =
                  RetrieveCall(top_k, use_hybrid, include_content, cache_key,
                               fail, "returned", FALSE, steps, found,
                               processed_results, retrieval_cache)

\* A call of _merge_results on two lists of candidates
MergeCall(vector_results, keyword_results) ==
    /\ retrieval_last' =
           [op |-> "merge", vector_results |-> vector_results,
            keyword_results |-> keyword_results,
            result |-> MergeResults(vector_results, keyword_results)]
    /\ UNCHANGED <<retrieval_cache, retrieval_now>>

\* Time passes: the entries of the result cache that reach their expiry go
RetrievalTick ==
    /\ retrieval_now < scenario.maxTicks
    /\ retrieval_now' = retrieval_now + cache_ttl
    /\ retrieval_cache' =
           {e \in retrieval_cache : e.expires_at > retrieval_now'}
    /\ retrieval_last' = NoRetrieval

\* Inputs
RetrievalQueries == {"q"}
TopKs == (1..MaxHits) \cup {NoTopK}
HybridInputs == {NoHybrid, "true", "false"}
CacheKeys == {NoKey, "k1"}
VectorScores == {30, 90}
KeywordScores == {0, 100}

\* The callers and collaborators of one deployment of the retriever
\*
\* The result cache over time.
RetrieverCache ==
    [name |-> "retriever cache", maxTicks |-> MaxRetrievalTicks,
     topKs |-> TopKs, hybrids |-> {"false"}, contents |-> {FALSE},
     keys |-> CacheKeys, fails |-> {"no"},
     hits |-> {VectorHit("flat", "d1", 0, 90), VectorHit("flat", "d1", 1, 40)},
     mergeVector |-> {}, mergeKeyword |-> {}]

\* Both shapes of candidate, hybrid or not, with and without content.
RetrieverShapes ==
    [name |-> "retriever shapes", maxTicks |-> 0,
     topKs |-> TopKs, hybrids |-> HybridInputs, contents |-> BOOLEAN,
     keys |-> {NoKey}, fails |-> {"no"},
     hits |-> {VectorHit("payload", "d1", 0, 90), VectorHit("flat", "d1", 0, 90),
               VectorHit("flat", "d1", 0, 30), VectorHit("flat", "d3", 0, 30)},
     mergeVector |-> {}, mergeKeyword |-> {}]

\* Collaborators that raise.
RetrieverFaults ==
    [name |-> "retriever faults", maxTicks |-> 0,
     topKs |-> {NoTopK}, hybrids |-> {"true", "false"}, contents |-> BOOLEAN,
     keys |-> CacheKeys, fails |-> RetrieveFails,
     hits |-> {VectorHit("payload", "d1", 0, 90), VectorHit("flat", "d1", 0, 90)},
     mergeVector |-> {}, mergeKeyword |-> {}]

\* _merge_results on lists of candidates, one call from the start.
RetrieverMerge ==
    [name |-> "retriever merge", maxTicks |-> 0,
     topKs |-> {}, hybrids |-> {}, contents |-> {}, keys |-> {},
     fails |-> {}, hits |-> {},
     mergeVector |->
         {VectorHit("payload", d, 0, s) :
              d \in {"d1", "d2"}, s \in VectorScores}
         \cup {VectorHit("flat", "d1", 0, 90),
               VectorHit("payload", ZeroDoc, 0, 90),
               VectorHit("payload", "d1", NoChunk, 90)},
     mergeKeyword |->
         {KeywordHit(d, 0, s) : d \in {"d1", "d3"}, s \in KeywordScores}
         \cup {KeywordHit(NoDoc, 0, 100)}]

RetrieverScenarios ==
    {RetrieverCache, RetrieverShapes, RetrieverFaults, RetrieverMerge}

RetrieverInit ==
    /\ store = {}
    /\ cache = {}
    /\ now = 0
    /\ ticks = 0
    /\ nextId = 1
    /\ last = NoCall
    /\ scenario \in RetrieverScenarios
    /\ retrieval_cache = {}
    /\ retrieval_now = 0
    /\ retrieval_last = NoRetrieval
    /\ reflection = NoReflection
    /\ segmenter = NoChunking
    /\ adders = NoAdders
    /\ documents = NoDocuments
    /\ limiter = NoLimiter

RetrieveAny(sc) ==
    \E query \in RetrievalQueries, top_k \in sc.topKs, use_hybrid \in sc.hybrids, include_content \in sc.contents, cache_key \in sc.keys, fail \in sc.fails :
        \E found \in SeqsUpTo(sc.hits, MaxHits) :
            Retrieve(query, top_k, use_hybrid, include_content, cache_key, found, fail)

MergeAny(sc) ==
    /\ sc.mergeVector # {}
    /\ retrieval_last = NoRetrieval
    /\ \E vector_results \in SeqsUpTo(sc.mergeVector, MaxHits) :
          \E keyword_results \in SeqsUpTo(sc.mergeKeyword, MaxHits) :
              MergeCall(vector_results, keyword_results)

RetrieverNext ==
    /\ \/ RetrievalTick
       \/ RetrieveAny(scenario)
       \/ MergeAny(scenario)
    /\ UNCHANGED <<memory_vars, scenario, reflection_vars, segmenter_vars, adder_vars, document_vars, limiter_vars>>

RetrieverSpec == RetrieverInit /\ [][RetrieverNext]_vars

----------------------------------------------------------------------------
(* Properties of the retriever                                              *)

\* The last call is a retrieve that returned
Retrieved == retrieval_last.op = "retrieve" /\ retrieval_last.outcome = "returned"

\* The last call is a call of the hybrid merge
Merged == retrieval_last.op = "merge"

\* C11 as stated: retrieve returns at most topK candidates, whatever the
\* query, topK, useHybrid and the state of the cache, a result served from
\* the cache included.
C11_AtMostTopK ==
    Retrieved => Len(retrieval_last.result) <= retrieval_last.top_k

\* The (documentId, chunkIndex) of a candidate of either search
HitKey(r) == <<r.document_id, r.chunk_index>>

\* The keys of a list of candidates
HitKeys(hits) == {HitKey(hits[i]) : i \in 1..Len(hits)}

\* The score of the last candidate with key k in a list that holds one
LastScore(hits, k) ==
    LET i == CHOOSE j \in 1..Len(hits) :
                 /\ HitKey(hits[j]) = k
                 /\ \A l \in (j + 1)..Len(hits) : HitKey(hits[l]) # k
    IN  hits[i].score

\* C12 as stated: the merge is keyed by (documentId, chunkIndex), every
\* key appears once, every vector candidate takes part, and the combined
\* score is 0.7 vector + 0.3 keyword for a key in both lists, the vector
\* score for a key in the vector list only, 0.3 keyword for a key in the
\* keyword list only.
C12_MergeAsStated ==
    Merged =>
        LET V == retrieval_last.vector_results
            K == retrieval_last.keyword_results
            R == retrieval_last.result
        IN  /\ \A i, j \in 1..Len(R) : R[i].id = R[j].id => i = j
            /\ \A k \in HitKeys(V) : \E i \in 1..Len(R) : R[i].id = k
            /\ \A i \in 1..Len(R) :
                  LET k == R[i].id
                  IN  /\ k \in HitKeys(V) \cup HitKeys(K)
                      /\ (k \in HitKeys(V) /\ k \in HitKeys(K)) =>
                            100 * R[i].combined_score =
                                70 * LastScore(V, k) + 30 * LastScore(K, k)
                      /\ (k \in HitKeys(V) /\ k \notin HitKeys(K)) =>
                            R[i].combined_score = LastScore(V, k)
                      /\ (k \notin HitKeys(V) /\ k \in HitKeys(K)) =>
                            100 * R[i].combined_score = 30 * LastScore(K, k)

\* The rank of a merged entry in the input: its first position among the
\* vector candidates, and behind them all its first position among the
\* keyword candidates
InputRank(x, V, K) ==
    IF \E i \in 1..Len(V) : V[i].shape = "payload" /\ HitKey(V[i]) = x.id
    THEN CHOOSE i \in 1..Len(V) :
             /\ V[i].shape = "payload" /\ HitKey(V[i]) = x.id
             /\ \A j \in 1..(i - 1) :
                   ~(V[j].shape = "payload" /\ HitKey(V[j]) = x.id)
    ELSE Len(V) + (CHOOSE i \in 1..Len(K) :
                       /\ HitKey(K[i]) = x.id
                       /\ \A j \in 1..(i - 1) : HitKey(K[j]) # x.id)

\* C13: the output of the hybrid merge is in descending order of combined
\* score, and two candidates with the same combined score are in the order
\* of the input: vector candidates in their search order, then the
\* keyword-only candidates.
C13_MergeSortedStable ==
    Merged =>
        LET V == retrieval_last.vector_results
            K == retrieval_last.keyword_results
            R == retrieval_last.result
        IN  \A i, j \in 1..Len(R) : i < j =>
                /\ R[i].combined_score >= R[j].combined_score
                /\ R[i].combined_score = R[j].combined_score =>
                      InputRank(R[i], V, K) < InputRank(R[j], V, K)

C13_Witness ==
    /\ Merged
    /\ Len(retrieval_last.vector_results) = 2
    /\ Len(retrieval_last.result) = 3
    /\ retrieval_last.result[1].combined_score > retrieval_last.result[2].combined_score
    /\ retrieval_last.result[2].combined_score = retrieval_last.result[3].combined_score
    /\ retrieval_last.result[2].keyword_score = 0
    /\ retrieval_last.result[3].vector_score = 0
    /\ retrieval_last.vector_results[1].score < retrieval_last.vector_results[2].score

\* C14 as stated: without hybrid search retrieve returns the vector
\* candidates in the order of the vector search, each with its vector
\* score as score.
C14_VectorOnlyScores ==
    (Retrieved /\ ~retrieval_last.use_hybrid /\ ~retrieval_last.hit) =>
        /\ Len(retrieval_last.result) = Len(retrieval_last.found)
        /\ \A i \in 1..Len(retrieval_last.result) :
              /\ retrieval_last.result[i].document_id
                     = retrieval_last.found[i].document_id
              /\ retrieval_last.result[i].score = retrieval_last.found[i].score

\* C15 as stated: a retrieve with a cache key whose entry is present and
\* unexpired returns the cached result and performs no embedding, search
\* or content fetch; after a miss the result is stored under the key, so
\* the entry is there for a repeat call within the ttl.
C15_CacheAsStated ==
    (Retrieved /\ retrieval_last.cache_key # NoKey /\ retrieval_last.fault = "no") =>
        LET live == LiveEntries(retrieval_last.pre, retrieval_last.cache_key, retrieval_now)
        IN  /\ live # {} =>
                  /\ retrieval_last.hit
                  /\ retrieval_last.steps \subseteq {"cache_get"}
                  /\ \A e \in live : retrieval_last.result = e.value
            /\ ~retrieval_last.hit =>
                  \E e \in retrieval_cache :
                      /\ e.key = retrieval_last.cache_key
                      /\ e.value = retrieval_last.result
                      /\ e.expires_at = retrieval_now + cache_ttl

\* The result of retrieve when no content is fetched
WithoutContent(found, use_hybrid) ==
    ProcessResults(IF use_hybrid THEN MergeResults(found, <<>>)
                   ELSE RawRows(found))

\* C16 as stated: a failure of the result cache or of content fetch does
\* not abort retrieve, and only a failure of the embedding step makes it
\* raise.
C16_FailureAsStated ==
    retrieval_last.op = "retrieve" =>
        /\ retrieval_last.fault \in {"cache_get", "cache_set", "fetch"}
              => retrieval_last.outcome = "returned"
        /\ retrieval_last.outcome = "raised" => retrieval_last.fault = "embed"

\* C16 amended: a failure of the result cache or of content fetch never
\* aborts retrieve: it returns the candidates of the vector search, without
\* content when the fetch failed, and a failing cache read counts as a miss;
\* a failure of the embedding step or of the vector search aborts the call
\* and surfaces the error, unless the call was served from the cache.
C16_FailureAmended ==
    retrieval_last.op = "retrieve" =>
        /\ retrieval_last.fault \in {"cache_get", "cache_set", "fetch"} =>
              /\ retrieval_last.outcome = "returned"
              /\ ~retrieval_last.hit =>
                    Len(retrieval_last.result)
                        = Len(WithoutContent(retrieval_last.found, retrieval_last.use_hybrid))
        /\ retrieval_last.fault = "fetch" /\ ~retrieval_last.hit =>
              retrieval_last.result
                  = WithoutContent(retrieval_last.found, retrieval_last.use_hybrid)
        /\ retrieval_last.fault = "cache_get" => ~retrieval_last.hit
        /\ retrieval_last.outcome = "raised" <=>
              (~retrieval_last.hit /\ retrieval_last.fault \in {"embed", "vector"})

C16_Witness ==
    /\ Retrieved
    /\ retrieval_last.fault = "fetch"
    /\ retrieval_last.include_content
    /\ "fetch" \in retrieval_last.steps
    /\ Len(retrieval_last.result) > 0
    /\ \A i \in 1..Len(retrieval_last.result) : ~retrieval_last.result[i].content

----------------------------------------------------------------------------
(* Part 3. The reflection engine (core/reflection_engine.py).              *)
(* A text is a sequence of characters, each a string of length one, so     *)
(* that the regular expressions and the string formatting of the engine    *)
(* are computed character by character.  Scores of results are in          *)
(* hundredths; relevance and coverage are in units of 1/ScoreUnit.         *)

MaxFollowUpHits == 1

\* Configuration (ReflectionEngine.__init__)
enabled == scenario.enabled
max_iterations == 2
max_gap_queries == 3
\* 1.0 in the unit of relevance and coverage: divisible by 10 and by every
\* count of results and of query terms that occurs
ScoreUnit == 840000
min_relevance_threshold == (6 * ScoreUnit) \div 10
min_coverage_threshold == (7 * ScoreUnit) \div 10

LowerLetters ==
    <<"a", "b", "c", "d", "e", "f", "g", "h", "i", "j",
      "k", "l", "m", "n", "o", "p", "q", "r", "s", "t",
      "u", "v", "w", "x", "y", "z">>
UpperLetters ==
    <<"A", "B", "C", "D", "E", "F", "G", "H", "I", "J",
      "K", "L", "M", "N", "O", "P", "Q", "R", "S", "T",
      "U", "V", "W", "X", "Y", "Z">>
LowerSet == {LowerLetters[i] : i \in 1..26}
UpperSet == {UpperLetters[i] : i \in 1..26}
SpaceSet == {" "}
\* \w: letters, digits and the underscore
WordSet == LowerSet \cup UpperSet \cup {"0", "1", "2", "3", "4", "5", "6", "7", "8", "9", "_"}

\* str.lower() on one character
LowerChar(c) ==
    IF c \in UpperSet
    THEN LowerLetters[CHOOSE i \in 1..26 : UpperLetters[i] = c]
    ELSE c

\* text.lower()
LowerText(text) == [i \in 1..Len(text) |-> LowerChar(text[i])]

\* The last position of the longest run of characters of `class` that
\* starts at p (p - 1 when text[p] is not in the class): a greedy x+
RunEnd(text, p, class) ==
    LET stops == {q \in p..Len(text) : text[q] \notin class}
    IN  IF stops = {} THEN Len(text)
        ELSE (CHOOSE q \in stops : \A r \in stops : q <= r) - 1

\* re.findall(r'\w+', text) from position p on
RECURSIVE FindAllWords(_, _)
FindAllWords(text, p) ==
    IF p > Len(text) THEN <<>>
    ELSE IF text[p] \in WordSet
         THEN <<SubSeq(text, p, RunEnd(text, p, WordSet))>>
                  \o FindAllWords(text, RunEnd(text, p, WordSet) + 1)
         ELSE FindAllWords(text, p + 1)

\* stop_words of _extract_key_terms
StopWords == {
    <<"a">>, <<"a", "n">>, <<"t", "h", "e">>, <<"a", "n", "d">>,
    <<"o", "r">>, <<"b", "u", "t">>, <<"i", "s">>, <<"a", "r", "e">>,
    <<"w", "a", "s">>, <<"w", "e", "r", "e">>, <<"b", "e">>,
    <<"b", "e", "e", "n">>, <<"b", "e", "i", "n", "g">>, <<"t", "o">>,
    <<"o", "f">>, <<"f", "o", "r">>, <<"w", "i", "t", "h">>, <<"b", "y">>,
    <<"a", "b", "o", "u", "t">>, <<"a", "g", "a", "i", "n", "s", "t">>,
    <<"b", "e", "t", "w", "e", "e", "n">>, <<"i", "n", "t", "o">>,
    <<"t", "h", "r", "o", "u", "g", "h">>, <<"d", "u", "r", "i", "n", "g">>,
    <<"b", "e", "f", "o", "r", "e">>, <<"a", "f", "t", "e", "r">>,
    <<"a", "b", "o", "v", "e">>, <<"b", "e", "l", "o", "w">>,
    <<"f", "r", "o", "m">>, <<"u", "p">>, <<"d", "o", "w", "n">>,
    <<"i", "n">>, <<"o", "u", "t">>, <<"o", "n">>, <<"o", "f", "f">>,
    <<"o", "v", "e", "r">>, <<"u", "n", "d", "e", "r">>,
    <<"a", "g", "a", "i", "n">>, <<"f", "u", "r", "t", "h", "e", "r">>,
    <<"t", "h", "e", "n">>, <<"o", "n", "c", "e">>, <<"h", "e", "r", "e">>,
    <<"t", "h", "e", "r", "e">>, <<"w", "h", "e", "n">>,
    <<"w", "h", "e", "r", "e">>, <<"w", "h", "y">>, <<"h", "o", "w">>,
    <<"a", "l", "l">>, <<"a", "n", "y">>, <<"b", "o", "t", "h">>,
    <<"e", "a", "c", "h">>, <<"f", "e", "w">>, <<"m", "o", "r", "e">>,
    <<"m", "o", "s", "t">>, <<"o", "t", "h", "e", "r">>,
    <<"s", "o", "m", "e">>, <<"s", "u", "c", "h">>, <<"n", "o">>,
    <<"n", "o", "r">>, <<"n", "o", "t">>, <<"o", "n", "l", "y">>,
    <<"o", "w", "n">>, <<"s", "a", "m", "e">>, <<"s", "o">>,
    <<"t", "h", "a", "n">>, <<"t", "o", "o">>, <<"v", "e", "r", "y">>,
    <<"c", "a", "n">>, <<"w", "i", "l", "l">>, <<"j", "u", "s", "t">>,
    <<"s", "h", "o", "u", "l", "d">>, <<"n", "o", "w">>}

\* _extract_key_terms
ExtractKeyTerms(text) ==
    SelectSeq(FindAllWords(LowerText(text), 1),
              LAMBDA w : w \notin StopWords /\ Len(w) > 2)

\* (?:the\s+) at p: the position behind it, 0 when it does not match
ThePrefixEnd(text, p) ==
    IF /\ p + 3 <= Len(text)
       /\ SubSeq(text, p, p + 2) = <<"t", "h", "e">>
       /\ text[p + 3] \in SpaceSet
    THEN RunEnd(text, p + 3, SpaceSet) + 1
    ELSE 0

\* (?:\s+[a-z]+) at p: its last position, 0 when it does not match
LowerGroupEnd(text, p) ==
    IF p <= Len(text) /\ text[p] \in SpaceSet
    THEN LET q == RunEnd(text, p, SpaceSet) + 1
         IN  IF q <= Len(text) /\ text[q] \in LowerSet
             THEN RunEnd(text, q, LowerSet)
             ELSE 0
    ELSE 0

\* The last position of up to `more` further groups (?:\s+[a-z]+) behind e
RECURSIVE LowerGroupsEnd(_, _, _)
LowerGroupsEnd(text, e, more) ==
    IF more = 0 \/ LowerGroupEnd(text, e + 1) = 0 THEN e
    ELSE LowerGroupsEnd(text, LowerGroupEnd(text, e + 1), more - 1)

\* ([A-Z][a-z]+(?:\s+[a-z]+){0,2}) at g: its last position, 0 when it does
\* not match
CapitalizedEnd(text, g) ==
    IF g + 1 <= Len(text) /\ text[g] \in UpperSet /\ text[g + 1] \in LowerSet
    THEN LowerGroupsEnd(text, RunEnd(text, g + 1, LowerSet), 2)
    ELSE 0

\* ([a-z]+\s+[a-z]+(?:\s+[a-z]+)?) at g: its last position, 0 when it does
\* not match
LowercaseEnd(text, g) ==
    IF g <= Len(text) /\ text[g] \in LowerSet
    THEN LET e == RunEnd(text, g, LowerSet)
         IN  IF LowerGroupEnd(text, e + 1) = 0 THEN 0
             ELSE LowerGroupsEnd(text, LowerGroupEnd(text, e + 1), 1)
    ELSE 0

\* The end of the group of pattern `n` when the group starts at g
GroupEnd(text, g, n) ==
    IF n = 1 THEN CapitalizedEnd(text, g) ELSE LowercaseEnd(text, g)

\* The start of the group of a match of pattern n at p: behind the
\* optional "the " when the group matches there, else p when it matches
\* there; 0 when pattern n does not match at p
GroupStart(text, p, n) ==
    IF ThePrefixEnd(text, p) # 0 /\ GroupEnd(text, ThePrefixEnd(text, p), n) # 0
    THEN ThePrefixEnd(text, p)
    ELSE IF p <= Len(text) /\ GroupEnd(text, p, n) # 0 THEN p ELSE 0

\* re.findall(patterns[n], text) from position p on: the groups of the
\* leftmost matches that do not overlap
RECURSIVE FindAllTopics(_, _, _)
FindAllTopics(text, p, n) ==
    IF p > Len(text) THEN <<>>
    ELSE LET g == GroupStart(text, p, n)
         IN  IF g = 0 THEN FindAllTopics(text, p + 1, n)
             ELSE <<SubSeq(text, g, GroupEnd(text, g, n))>>
                      \o FindAllTopics(text, GroupEnd(text, g, n) + 1, n)

\* The matches of both patterns, before deduplication
TopicMatches(query) == FindAllTopics(query, 1, 1) \o FindAllTopics(query, 1, 2)

\* The elements of a sequence
Range(s) == {s[i] : i \in 1..Len(s)}

\* list(set(topics)): the order of iteration of a set of strings depends
\* on the hashes of the strings, which the interpreter salts per process;
\* `order` is the order of this process
ListOfSet(set, order) == SelectSeq(order, LAMBDA t : t \in set)

\* _extract_query_topics
ExtractQueryTopics(query, order) ==
    IF TopicMatches(query) # <<>>
    THEN ListOfSet(Range(TopicMatches(query)), order)
    ELSE SubSeq(ExtractKeyTerms(query), 1,
                IF Len(ExtractKeyTerms(query)) < 3
                THEN Len(ExtractKeyTerms(query)) ELSE 3)

\* The result of a search as reflect receives it
ResultRow(document_id, chunk_index, score, content) ==
    [document_id |-> document_id, chunk_index |-> chunk_index,
     score |-> score, content |-> content]

RECURSIVE SumScores(_)
SumScores(results) ==
    IF results = <<>> THEN 0
    ELSE Head(results).score + SumScores(Tail(results))

\* relevance = avg_score * 0.7 + min(len(results) / 5, 1.0) * 0.3
Relevance(results) ==
    IF results = <<>> THEN 0
    ELSE LET avg_score == (SumScores(results) * (ScoreUnit \div 100)) \div Len(results)
             count_factor == IF Len(results) >= 5 THEN ScoreUnit
                             ELSE (Len(results) * ScoreUnit) \div 5
         IN  (7 * avg_score + 3 * count_factor) \div 10

\* The key terms of the contents of all results
ResultTerms(results) ==
    UNION {Range(ExtractKeyTerms(results[i].content)) : i \in 1..Len(results)}

\* A coverage that is the term overlap alone, without the share the number
\* of results gives
CoverageOverlapOnly(query, results) ==
    IF results = <<>> \/ ExtractKeyTerms(query) = <<>> THEN 0
    ELSE (Cardinality(Range(ExtractKeyTerms(query)) \cap ResultTerms(results)) * ScoreUnit)
             \div Cardinality(Range(ExtractKeyTerms(query)))

\* coverage = max(overlap, min(len(results) / 10, 0.7))
Coverage(query, results) ==
    IF results = <<>> THEN 0
    ELSE LET query_terms == Range(ExtractKeyTerms(query))
             overlap == IF query_terms = {} THEN 0
                        ELSE (Cardinality(query_terms \cap ResultTerms(results)) * ScoreUnit)
                                 \div Cardinality(query_terms)
             by_count == (Len(results) * ScoreUnit) \div 10
             min_coverage == IF by_count < (7 * ScoreUnit) \div 10 THEN by_count
                             ELSE (7 * ScoreUnit) \div 10
         IN  IF overlap > min_coverage THEN overlap ELSE min_coverage

\* A test of sufficiency that is content with one of the two thresholds
SufficientEither(relevance, coverage) ==
    relevance >= min_relevance_threshold \/ coverage >= min_coverage_threshold

\* has_sufficient_info of reflect
Sufficient(relevance, coverage) ==
    relevance >= min_relevance_threshold /\ coverage >= min_coverage_threshold

\* gaps of _analyze_results
Gaps(query, relevance, coverage, order) ==
    IF relevance < min_relevance_threshold \/ coverage < min_coverage_threshold
    THEN ExtractQueryTopics(query, order)
    ELSE <<>>

\* " regarding "
Regarding ==
    <<" ", "r", "e", "g", "a", "r", "d", "i", "n", "g", " ">>

\* "more details about "
MoreDetailsAbout ==
    <<"m", "o", "r", "e", " ", "d", "e", "t", "a", "i", "l", "s", " ", "a",
      "b", "o", "u", "t", " ">>

\* "additional information on "
AdditionalInformationOn ==
    <<"a", "d", "d", "i", "t", "i", "o", "n", "a", "l", " ", "i", "n", "f",
      "o", "r", "m", "a", "t", "i", "o", "n", " ", "o", "n", " ">>

\* "extended explanation of "
ExtendedExplanationOf ==
    <<"e", "x", "t", "e", "n", "d", "e", "d", " ", "e", "x", "p", "l", "a",
      "n", "a", "t", "i", "o", "n", " ", "o", "f", " ">>


\* The first loop of _generate_follow_up_queries
RECURSIVE TargetedQueries(_, _)
TargetedQueries(original_query, gaps) ==
    IF gaps = <<>> THEN <<>>
    ELSE IF Len(Head(gaps)) <= 3 THEN TargetedQueries(original_query, Tail(gaps))
         ELSE <<original_query \o Regarding \o Head(gaps)>>
                  \o TargetedQueries(original_query, Tail(gaps))

\* The general follow-ups
GeneralQueries(original_query) ==
    <<MoreDetailsAbout \o original_query,
      AdditionalInformationOn \o original_query,
      ExtendedExplanationOf \o original_query>>

\* list(dict.fromkeys(queries)): the first occurrence of each element
RECURSIVE Unique(_)
Unique(queries) ==
    IF queries = <<>> THEN <<>>
    ELSE LET rest == Unique(SubSeq(queries, 1, Len(queries) - 1))
             q == queries[Len(queries)]
         IN  IF q \in Range(rest) THEN rest ELSE Append(rest, q)

\* queries[:n]
Truncate(queries, n) ==
    SubSeq(queries, 1, IF Len(queries) < n THEN Len(queries) ELSE n)

\* _generate_follow_up_queries
GenerateFollowUpQueries(original_query, gaps) ==
    Truncate(Unique(IF TargetedQueries(original_query, gaps) = <<>>
                    THEN GeneralQueries(original_query)
                    ELSE TargetedQueries(original_query, gaps)),
             max_gap_queries)

\* f"{result.get('document_id')}:{result.get('chunk_index')}"
ResultKey(result) == <<result.document_id, result.chunk_index>>

\* An entry of all_results: a copy of the result with its bookkeeping
\* (source "reflection" with source_index i is the label reflection_<i>;
\* reflection_score is NoScore while the key is absent)
AllEntry(result, source, source_index, reflection_score, queries) ==
    [id |-> ResultKey(result), result |-> result, source |-> source,
     source_index |-> source_index,
     reflection_score |-> reflection_score, queries |-> queries]

\* A loop over the initial results without the test `key not in
\* all_results`
RECURSIVE AddInitialUnkeyed(_, _, _)
AddInitialUnkeyed(all_results, original_query, initial_results) ==
    IF initial_results = <<>> THEN all_results
    ELSE AddInitialUnkeyed(
             Append(all_results,
                    AllEntry(Head(initial_results), "initial", 0, NoScore,
                             <<original_query>>)),
             original_query, Tail(initial_results))

\* The loop over the initial results
RECURSIVE AddInitial(_, _, _)
AddInitial(all_results, original_query, initial_results) ==
    IF initial_results = <<>> THEN all_results
    ELSE LET result == Head(initial_results)
         IN  AddInitial(
                 IF KeyIndex(all_results, ResultKey(result)) = 0
                 THEN Append(all_results,
                             AllEntry(result, "initial", 0, NoScore,
                                      <<original_query>>))
                 ELSE all_results,
                 original_query, Tail(initial_results))

\* max(all_results[key].get("reflection_score", 0), result.get("score", 0))
MaxReflectionScore(reflection_score, score) ==
    LET current == IF reflection_score = NoScore THEN 0 ELSE reflection_score
    IN  IF current > score THEN current ELSE score

\* The loop over the results of the i-th follow-up query
RECURSIVE AddReflection(_, _, _, _)
AddReflection(all_results, query_results, query, i) ==
    IF query_results = <<>> THEN all_results
    ELSE LET result == Head(query_results)
             key == ResultKey(result)
             j == KeyIndex(all_results, key)
         IN  AddReflection(
                 IF j # 0
                 THEN [all_results EXCEPT ![j] =
                          [@ EXCEPT !.reflection_score =
                                        MaxReflectionScore(@, result.score),
                                    !.queries = Append(@, query)]]
                 ELSE Append(all_results,
                             AllEntry(result, "reflection", i,
                                      result.score, <<query>>)),
                 Tail(query_results), query, i)

\* The loop over zip(reflection_results, reflection_queries) from i on
RECURSIVE AddReflections(_, _, _, _)
AddReflections(all_results, reflection_results, reflection_queries, i) ==
    IF i > Len(reflection_results) \/ i > Len(reflection_queries) THEN all_results
    ELSE AddReflections(
             AddReflection(all_results, reflection_results[i],
                           reflection_queries[i], i),
             reflection_results, reflection_queries, i + 1)

\* final_score = base_score + query_bonus + initial_bonus, in hundredths
FinalScore(entry) ==
    LET base_score == IF entry.source # "initial"
                      THEN (IF entry.reflection_score = NoScore THEN 0
                            ELSE entry.reflection_score)
                      ELSE entry.result.score
        query_bonus == IF Len(entry.queries) * 5 < 15
                       THEN Len(entry.queries) * 5 ELSE 15
        initial_bonus == IF entry.source = "initial" THEN 10 ELSE 0
    IN  base_score + query_bonus + initial_bonus

\* One step of merged_results.sort(key=final_score, reverse=True)
InsertByFinalScore(sorted, x) ==
    LET n == Cardinality({i \in 1..Len(sorted) : FinalScore(sorted[i]) >= FinalScore(x)})
    IN  SubSeq(sorted, 1, n) \o <<x>> \o SubSeq(sorted, n + 1, Len(sorted))

RECURSIVE SortByFinalScore(_)
SortByFinalScore(entries) ==
    IF entries = <<>> THEN <<>>
    ELSE InsertByFinalScore(
             SortByFinalScore(SubSeq(entries, 1, Len(entries) - 1)),
             entries[Len(entries)])

\* The clean-up: the bookkeeping is deleted, final_score becomes score
CleanUp(entry) == [entry.result EXCEPT !.score = FinalScore(entry)]

\* all_results of _merge_and_rank_results, before the scores
AllResults(original_query, initial_results, reflection_results, reflection_queries) ==
    AddReflections(AddInitial(<<>>, original_query, initial_results),
                   reflection_results, reflection_queries, 1)

\* _merge_and_rank_results
MergeAndRankResults(original_query, initial_results, reflection_results, reflection_queries) ==
    LET merged_results == SortByFinalScore(
            AllResults(original_query, initial_results,
                       reflection_results, reflection_queries))
    IN  [i \in 1..Len(merged_results) |-> CleanUp(merged_results[i])]

\* The phases in which a call of reflect has ended
Ended == {"Skipped", "Sufficient", "Merged", "Raised"}

\* RetrievalResult(query=query, results=initial_results)
RetrievalResult(query, initial_results) ==
    [phase |-> "Start", query |-> query, results |-> initial_results,
     has_reflected |-> FALSE, reflection_queries |-> <<>>,
     reflection_results |-> <<>>, knowledge_gaps |-> <<>>,
     has_sufficient_info |-> FALSE, relevance_score |-> 0,
     coverage_score |-> 0, ranked_chunks |-> <<>>, retrieve_calls |-> 0]

\* reflect is called
ReflectStart(query, initial_results) ==
    /\ reflection.phase \in Ended \cup {"Idle"}
    /\ reflection' = RetrievalResult(query, initial_results)

\* Reflection is disabled or there are no results: lines 107-113
ReflectSkip ==
    /\ reflection.phase = "Start"
    /\ ~enabled \/ reflection.results = <<>>
    /\ reflection' =
           [reflection EXCEPT
               !.phase = "Skipped",
               !.has_sufficient_info = Len(reflection.results) > 0,
               !.relevance_score = IF reflection.results # <<>>
                                   THEN (7 * ScoreUnit) \div 10 ELSE 0,
               !.coverage_score = IF reflection.results # <<>>
                                  THEN (7 * ScoreUnit) \div 10 ELSE 0,
               !.ranked_chunks = reflection.results]

\* _analyze_results and the assignments of lines 116-120
ReflectAnalyze ==
    /\ reflection.phase = "Start"
    /\ enabled /\ reflection.results # <<>>
    /\ LET relevance == Relevance(reflection.results)
           coverage == Coverage(reflection.query, reflection.results)
       IN  reflection' =
               [reflection EXCEPT
                   !.phase = "Analyzed",
                   !.relevance_score = relevance,
                   !.coverage_score = coverage,
                   !.knowledge_gaps = Gaps(reflection.query, relevance,
                                           coverage, scenario.order)]

\* Sufficient information: lines 129-132
ReflectSufficient ==
    /\ reflection.phase = "Analyzed"
    /\ Sufficient(reflection.relevance_score, reflection.coverage_score)
    /\ reflection' =
           [reflection EXCEPT !.phase = "Sufficient",
                              !.has_sufficient_info = TRUE,
                              !.ranked_chunks = reflection.results]

\* Reflection starts: lines 135-143
ReflectFollowUp ==
    /\ reflection.phase = "Analyzed"
    /\ ~Sufficient(reflection.relevance_score, reflection.coverage_score)
    /\ reflection' =
           [reflection EXCEPT
               !.phase = "ReflectingIteration",
               !.has_reflected = TRUE,
               !.reflection_queries =
                   GenerateFollowUpQueries(reflection.query,
                                           reflection.knowledge_gaps)]

\* follow_up_queries[:max_gap_queries] of lines 142-143
FollowUpQueries == Truncate(reflection.reflection_queries, max_gap_queries)

\* One retriever.retrieve of the loop of lines 152-160 returns
ReflectRetrieve(additional_results) ==
    /\ reflection.phase = "ReflectingIteration"
    /\ Len(reflection.reflection_results) < Len(FollowUpQueries)
    /\ reflection' =
           [reflection EXCEPT
               !.reflection_results = Append(@, additional_results),
               !.retrieve_calls = @ + 1]

\* One retriever.retrieve of the loop raises: reflect has no handler and
\* the exception leaves it
ReflectRetrieveRaises ==
    /\ reflection.phase = "ReflectingIteration"
    /\ Len(reflection.reflection_results) < Len(FollowUpQueries)
    /\ scenario.faults
    /\ reflection' = [RetrievalResult(reflection.query, reflection.results)
                         EXCEPT !.phase = "Raised",
                                !.retrieve_calls = reflection.retrieve_calls + 1]

\* The merge and the return: lines 166-177
ReflectMerge ==
    /\ reflection.phase = "ReflectingIteration"
    /\ Len(reflection.reflection_results) = Len(FollowUpQueries)
    /\ reflection' =
           [reflection EXCEPT
               !.phase = "Merged",
               !.ranked_chunks =
                   MergeAndRankResults(reflection.query, reflection.results,
                                       reflection.reflection_results,
                                       FollowUpQueries),
               !.has_sufficient_info = TRUE]

\* The queries of the callers
\* "What is the capital of France?"
QueryFrance ==
    <<"W", "h", "a", "t", " ", "i", "s", " ", "t", "h", "e", " ", "c", "a",
      "p", "i", "t", "a", "l", " ", "o", "f", " ", "F", "r", "a", "n", "c",
      "e", "?">>

\* "Is AI the new oil?"
QueryOil ==
    <<"I", "s", " ", "A", "I", " ", "t", "h", "e", " ", "n", "e", "w", " ",
      "o", "i", "l", "?">>

\* "Go?"
QueryGo ==
    <<"G", "o", "?">>

\* "rust,rust"
QueryRust ==
    <<"r", "u", "s", "t", ",", "r", "u", "s", "t">>

\* "Explain quantum entanglement"
QueryQuantum ==
    <<"E", "x", "p", "l", "a", "i", "n", " ", "q", "u", "a", "n", "t", "u",
      "m", " ", "e", "n", "t", "a", "n", "g", "l", "e", "m", "e", "n", "t">>


\* The contents of the chunks
\* "Paris is the capital of France."
ParisContent ==
    <<"P", "a", "r", "i", "s", " ", "i", "s", " ", "t", "h", "e", " ", "c",
      "a", "p", "i", "t", "a", "l", " ", "o", "f", " ", "F", "r", "a", "n",
      "c", "e", ".">>

\* "What is France? The capital is Paris."
FullContent ==
    <<"W", "h", "a", "t", " ", "i", "s", " ", "F", "r", "a", "n", "c", "e",
      "?", " ", "T", "h", "e", " ", "c", "a", "p", "i", "t", "a", "l", " ",
      "i", "s", " ", "P", "a", "r", "i", "s", ".">>

\* "Partial answer."
PartialContent ==
    <<"P", "a", "r", "t", "i", "a", "l", " ", "a", "n", "s", "w", "e", "r",
      ".">>


\* n results with one score and one content
UniformResults(n, score, content) ==
    [i \in 1..n |-> ResultRow("d1", i - 1, score, content)]

\* The orders in which the elements of a set can be listed
Orders(set) ==
    {order \in [1..Cardinality(set) -> set] : Range(order) = set}

\* The first occurrences of the topics of a query, in the order of their
\* first occurrence
TopicsOf(query) == Unique(TopicMatches(query))

\* The results a follow-up retrieval can find
FollowUpHits ==
    {ResultRow("d1", 0, 50, ParisContent),
     ResultRow("d9", 0, 80, FullContent),
     ResultRow("d9", 0, 40, PartialContent),
     ResultRow("d8", 0, 80, PartialContent)}

\* The process of the test of sufficient information, with every order
\* of the set of topics
ReflectionOrders ==
    {[name |-> "orders", enabled |-> TRUE, faults |-> FALSE,
      queries |-> {QueryFrance}, order |-> order,
      initials |-> {UniformResults(1, 90, ParisContent),
                    UniformResults(1, 90, FullContent)},
      followHits |-> {ResultRow("d9", 0, 80, FullContent)}]
        : order \in Orders(Range(TopicsOf(QueryFrance)))}

\* Results of one score, by their number
ReflectionCounts ==
    {[name |-> "counts", enabled |-> TRUE, faults |-> FALSE,
      queries |-> {QueryFrance}, order |-> TopicsOf(QueryFrance),
      initials |-> {UniformResults(n, score, content) :
                        n \in 0..7, score \in {30, 90},
                        content \in {ParisContent, FullContent}},
      followHits |-> {}]}

\* The queries whose topics are short, repeated or missing
ReflectionQueries ==
    {[name |-> "queries", enabled |-> enabled_in, faults |-> FALSE,
      queries |-> {query}, order |-> TopicsOf(query),
      initials |-> {UniformResults(n, 30, PartialContent) : n \in 0..2},
      followHits |-> {ResultRow("d1", 0, 50, ParisContent)}]
        : query \in {QueryOil, QueryGo, QueryRust, QueryQuantum},
          enabled_in \in BOOLEAN}

\* Follow-up retrievals that find chunks of the initial results and new
\* ones, and that fail
ReflectionMerges ==
    {[name |-> "merges", enabled |-> TRUE, faults |-> TRUE,
      queries |-> {QueryFrance}, order |-> TopicsOf(QueryFrance),
      initials |-> {<<ResultRow("d1", 0, 30, PartialContent)>>,
                    <<ResultRow("d1", 0, 30, PartialContent),
                      ResultRow("d1", 0, 90, ParisContent)>>,
                    <<ResultRow("d1", 0, 30, PartialContent),
                      ResultRow(NoDoc, NoChunk, 60, PartialContent)>>},
      followHits |-> FollowUpHits]}

ReflectionScenarios ==
    ReflectionOrders \cup ReflectionCounts \cup ReflectionQueries \cup ReflectionMerges

ReflectionInit ==
    /\ scenario \in ReflectionScenarios
    /\ store = {}
    /\ cache = {}
    /\ now = 0
    /\ ticks = 0
    /\ nextId = 1
    /\ last = NoCall
    /\ retrieval_cache = {}
    /\ retrieval_now = 0
    /\ retrieval_last = NoRetrieval
    /\ reflection = NoReflection
    /\ segmenter = NoChunking
    /\ adders = NoAdders
    /\ documents = NoDocuments
    /\ limiter = NoLimiter

ReflectAny(sc) ==
    /\ reflection.phase \in Ended \cup {"Idle"}
    /\ \E query \in sc.queries : \E initial_results \in sc.initials :
           ReflectStart(query, initial_results)

RetrieveFollowUp(sc) ==
    /\ reflection.phase = "ReflectingIteration"
    /\ \E additional_results \in SeqsUpTo(sc.followHits, MaxFollowUpHits) :
           ReflectRetrieve(additional_results)

ReflectionNext ==
    /\ \/ ReflectAny(scenario)
       \/ ReflectSkip
       \/ ReflectAnalyze
       \/ ReflectSufficient
       \/ ReflectFollowUp
       \/ RetrieveFollowUp(scenario)
       \/ ReflectRetrieveRaises
       \/ ReflectMerge
    /\ UNCHANGED <<memory_vars, scenario, retriever_vars, segmenter_vars, adder_vars, document_vars, limiter_vars>>

ReflectionSpec == ReflectionInit /\ [][ReflectionNext]_vars

----------------------------------------------------------------------------
(* Properties of the reflection engine                                      *)

\* A call of reflect with reflection enabled and initial results has
\* returned
Reflected == reflection.phase \in {"Sufficient", "Merged"}

\* relevance < 0.6, with relevance = 0.7 mean + 0.3 min(count / 5, 1) and
\* the scores in hundredths: both sides times 1000 count
RelevanceBelow(results) ==
    LET n == Len(results)
    IN  7 * SumScores(results) + (IF n >= 5 THEN 300 * n ELSE 60 * n * n) < 600 * n

\* The query terms that occur in the results, and all query terms
TermsFound(query, results) ==
    Cardinality(Range(ExtractKeyTerms(query)) \cap ResultTerms(results))

TermsAsked(query) == Cardinality(Range(ExtractKeyTerms(query)))

\* term overlap < 0.7
OverlapBelow(query, results) ==
    10 * TermsFound(query, results) < 7 * TermsAsked(query) \/ TermsAsked(query) = 0

\* coverage < 0.7, with coverage = max(overlap, min(count / 10, 0.7))
CoverageBelow(query, results) ==
    OverlapBelow(query, results) /\ Len(results) < 7

FiveAtNinety ==
    /\ Len(reflection.results) >= 5
    /\ SumScores(reflection.results) = 90 * Len(reflection.results)

\* C18 as stated: for initial results with mean score 0.9 and count at
\* least 5 reflect returns reflected = false and the initial list as
\* ranked list, whatever the query terms and the contents are.
C18_FiveAtNinetyAsStated ==
    (Reflected /\ FiveAtNinety) =>
        /\ ~reflection.has_reflected
        /\ reflection.ranked_chunks = reflection.results

\* C18 amended: for initial results with mean score 0.9 and count at least
\* 5, reflect returns reflected = false and the initial list unchanged
\* exactly when the count is at least 7 or at least 0.7 of the query terms
\* occur in the contents; with 5 or 6 results and a smaller term overlap
\* the coverage is below its threshold and reflect reflects.
C18_FiveAtNinetyAmended ==
    (Reflected /\ FiveAtNinety) =>
        /\ ~reflection.has_reflected <=>
              \/ Len(reflection.results) >= 7
              \/ ~OverlapBelow(reflection.query, reflection.results)
        /\ ~reflection.has_reflected =>
              reflection.ranked_chunks = reflection.results

C18_Witness ==
    /\ reflection.phase = "Sufficient"
    /\ FiveAtNinety
    /\ Len(reflection.results) = 7
    /\ OverlapBelow(reflection.query, reflection.results)
    /\ reflection.ranked_chunks = reflection.results

\* The follow-up queries reflect builds when the set of topics is listed
\* in `order`
FollowUpsUnder(query, order) ==
    GenerateFollowUpQueries(query, ExtractQueryTopics(query, order))

\* The form of the follow-up queries F built from the gaps: at most
\* max_gap_queries, no duplicates, each '<query> regarding <gap>' for a gap
\* longer than 3 characters, in the order of the first occurrence of their
\* gaps, or the three general queries when no gap is usable
WellFormedFollowUps(query, gaps, F) ==
    LET usable == SelectSeq(gaps, LAMBDA g : Len(g) > 3)
        FirstAt(g) == CHOOSE i \in 1..Len(usable) :
                          /\ usable[i] = g
                          /\ \A j \in 1..(i - 1) : usable[j] # g
    IN  /\ Len(F) <= max_gap_queries
        /\ \A i, j \in 1..Len(F) : F[i] = F[j] => i = j
        /\ usable = <<>> => F = GeneralQueries(query)
        /\ usable # <<>> =>
              /\ F # <<>>
              /\ \A i \in 1..Len(F) :
                    \E g \in Range(usable) : F[i] = query \o Regarding \o g
              /\ \A i, j \in 1..Len(F) : \A g, h \in Range(usable) :
                    (/\ i < j
                     /\ F[i] = query \o Regarding \o g
                     /\ F[j] = query \o Regarding \o h) => FirstAt(g) < FirstAt(h)
              /\ \A g \in Range(usable) :
                    \/ \E i \in 1..Len(F) : F[i] = query \o Regarding \o g
                    \/ Len(F) = max_gap_queries

\* C19 as stated: the follow-up queries of a reflecting call number at most
\* maxGapQueries, have no duplicates, keep first-occurrence order, each is
\* '<query> regarding <gap>' for a gap longer than 3 characters or one of
\* the three general queries when no gap is usable, and the same query and
\* initial results give the same follow-up queries on every call, in
\* whatever order the process lists the set of topics.
C19_FollowUpsAsStated ==
    reflection.phase \in {"ReflectingIteration", "Merged"} =>
        /\ WellFormedFollowUps(reflection.query, reflection.knowledge_gaps,
                               reflection.reflection_queries)
        /\ \A order \in Orders(Range(TopicMatches(reflection.query))) :
              FollowUpsUnder(reflection.query, order) = reflection.reflection_queries

\* The (documentId, chunkIndex) of a result
ChunkKey(result) == <<result.document_id, result.chunk_index>>

\* The keys of a list of results
ChunkKeys(results) == {ChunkKey(results[i]) : i \in 1..Len(results)}

\* The keys of the initial results and of all follow-up result sets
AllChunkKeys ==
    ChunkKeys(reflection.results)
        \cup UNION {ChunkKeys(reflection.reflection_results[i]) :
                        i \in 1..Len(reflection.reflection_results)}

\* C20: when reflect reflects, the merged ranked list contains each
\* distinct (documentId, chunkIndex) of the initial results and of all
\* follow-up result sets exactly once, and no other key.
C20_MergeKeysOnce ==
    reflection.phase = "Merged" =>
        /\ \A k \in AllChunkKeys :
              Cardinality({i \in 1..Len(reflection.ranked_chunks) :
                              ChunkKey(reflection.ranked_chunks[i]) = k}) = 1
        /\ \A i \in 1..Len(reflection.ranked_chunks) :
              ChunkKey(reflection.ranked_chunks[i]) \in AllChunkKeys

C20_Witness ==
    /\ reflection.phase = "Merged"
    /\ Len(reflection.results) = 2
    /\ ChunkKey(reflection.results[1]) = ChunkKey(reflection.results[2])
    /\ \E i \in 1..Len(reflection.reflection_results) :
           ChunkKey(reflection.results[1]) \in ChunkKeys(reflection.reflection_results[i])
    /\ \E i, j \in 1..Len(reflection.reflection_results) :
           /\ i # j
           /\ ChunkKeys(reflection.reflection_results[i]) \cap ChunkKeys(reflection.reflection_results[j]) # {}
           /\ ChunkKeys(reflection.reflection_results[i]) \cap ChunkKeys(reflection.results) = {}
    /\ Len(reflection.ranked_chunks) = 2

\* The follow-up result sets that returned the key k
SetsWith(k) ==
    {i \in 1..Len(reflection.reflection_results) :
        k \in ChunkKeys(reflection.reflection_results[i])}

\* The highest score a follow-up result with key k has
MaxFollowUpScore(k) ==
    LET found == {s \in 0..100 :
                     \E i \in 1..Len(reflection.reflection_results) :
                         \E j \in 1..Len(reflection.reflection_results[i]) :
                             /\ ChunkKey(reflection.reflection_results[i][j]) = k
                             /\ reflection.reflection_results[i][j].score = s}
    IN  CHOOSE s \in found : \A t \in found : t <= s

\* The score of the first initial result with key k
InitialScore(k) ==
    LET i == CHOOSE j \in 1..Len(reflection.results) :
                 /\ ChunkKey(reflection.results[j]) = k
                 /\ \A l \in 1..(j - 1) : ChunkKey(reflection.results[l]) # k
    IN  reflection.results[i].score

\* 0.05 per follow-up query that returned the key, at most 0.15
QueryBonus(k) ==
    IF 5 * Cardinality(SetsWith(k)) < 15 THEN 5 * Cardinality(SetsWith(k)) ELSE 15

\* C21 as stated: in the merge an entry of the initial results gets its
\* original score + 0.10 + 0.05 per follow-up query that also returned it
\* (at most 0.15), an entry found by follow-ups only gets its highest
\* follow-up score + 0.05 per follow-up query that returned it (at most
\* 0.15), and the output is in descending order of final score.
C21_FinalScoresAsStated ==
    reflection.phase = "Merged" =>
        LET ranked == reflection.ranked_chunks
        IN  /\ \A i \in 1..Len(ranked) :
                  LET k == ChunkKey(ranked[i])
                  IN  ranked[i].score =
                          IF k \in ChunkKeys(reflection.results)
                          THEN InitialScore(k) + 10 + QueryBonus(k)
                          ELSE MaxFollowUpScore(k) + QueryBonus(k)
            /\ \A i, j \in 1..Len(ranked) : i < j => ranked[i].score >= ranked[j].score

\* The permutations of 1..n
Rearrangements(n) == {p \in [1..n -> 1..n] : \A i, j \in 1..n : p[i] = p[j] => i = j}

\* The keys and final scores of a ranked list, in its order
KeysAndScores(ranked) == [i \in 1..Len(ranked) |-> <<ChunkKey(ranked[i]), ranked[i].score>>]

\* C22 as stated: the merged ranked list is determined by the set of
\* follow-up result sets, not by their order: presenting the result sets
\* (each with its query) in any other order changes neither a final score
\* nor the order of the output, entries of equal final score included.
C22_MergeOrderIndependent ==
    reflection.phase = "Merged" =>
        \A p \in Rearrangements(Len(reflection.reflection_results)) :
            KeysAndScores(
                MergeAndRankResults(
                    reflection.query, reflection.results,
                    [i \in 1..Len(reflection.reflection_results) |->
                        reflection.reflection_results[p[i]]],
                    [i \in 1..Len(reflection.reflection_results) |->
                        FollowUpQueries[p[i]]]))
                = KeysAndScores(reflection.ranked_chunks)

\* C23 as stated: a follow-up retrieval that fails counts as an empty
\* result set and reflect completes with the merge: no call of reflect
\* ends by raising the error of a follow-up retrieval.
C23_FollowUpFailureAsStated == reflection.phase # "Raised"

\* The steps of the state machine of the reflection controller as the
\* specification draws it
StatedSteps ==
    {<<"Start", "Analyzed">>, <<"Analyzed", "Sufficient">>,
     <<"Analyzed", "ReflectingIteration">>,
     <<"ReflectingIteration", "Merged">>}

\* The steps reflect takes besides: the return of lines 107-113 and the
\* exception of a follow-up retrieval
UnstatedSteps ==
    {<<"Start", "Skipped">>, <<"ReflectingIteration", "Raised">>}

\* One step of a call changes the phase along one of the steps; a new call
\* begins in Start
StepsWithin(steps) ==
    reflection'.phase # reflection.phase =>
        \/ reflection'.phase = "Start"
        \/ <<reflection.phase, reflection'.phase>> \in steps

\* What holds of every call: its phase moves along the stated and the
\* unstated steps, it asks the retriever at most max_gap_queries times,
\* whatever max_iterations, and a merged call has reflected and is marked
\* sufficient
SinglePass ==
    /\ [][StepsWithin(StatedSteps \cup UnstatedSteps)]_vars
    /\ [](reflection.phase # "Idle" =>
              /\ reflection.retrieve_calls <= max_gap_queries
              /\ max_iterations > 1
              /\ reflection.phase = "Merged" =>
                     /\ reflection.has_sufficient_info
                     /\ reflection.has_reflected
                     /\ reflection.retrieve_calls = Len(FollowUpQueries))

\* C24: every call of reflect follows Start -> Analyzed -> Sufficient or
\* Start -> Analyzed -> ReflectingIteration -> Merged and stops there; it
\* issues at most max_gap_queries retrievals and is marked sufficient
\* after the merge
C24_SinglePassAsStated ==
    /\ [][StepsWithin(StatedSteps)]_vars
    /\ [](reflection.phase # "Idle" =>
              /\ reflection.retrieve_calls <= max_gap_queries
              /\ reflection.phase = "Merged" => reflection.has_sufficient_info)

----------------------------------------------------------------------------
(* Part 4: the chunking of the document processor                           *)
(* (core/document_processor.py, _create_fixed_chunks and                    *)
(* _create_adaptive_chunks).  A text is a sequence of characters.  One call *)
(* is followed statement by statement: a step of the model is one turn of   *)
(* the while loop of the fixed chunking or one paragraph of the adaptive    *)
(* chunking, since the loop need not end.                                   *)

\* number of chunks after which the model stops following a loop
MaxChunks == 8

\* length of the texts drawn from the alphabet
MaxTextLen == 5

\* str.isspace on the characters of the model
Whitespace == {" ", "\n"}

\* An index of a slice as str.__getitem__ and str.rfind read it: counted
\* from the end when negative, then clipped to 0..len
SliceIndex(i, len) ==
    IF i < 0 THEN (IF i + len < 0 THEN 0 ELSE i + len)
    ELSE IF i > len THEN len ELSE i

\* text[start:end]
Slice(text, start, end) ==
    LET from == SliceIndex(start, Len(text))
        to == SliceIndex(end, Len(text))
    IN  IF from >= to THEN <<>> ELSE SubSeq(text, from + 1, to)

\* text.rfind('. ', start, end): the highest index (counted from 0) at
\* which '. ' lies within text[start:end], -1 if there is none
RFindSentence(text, start, end) ==
    LET from == SliceIndex(start, Len(text))
        to == SliceIndex(end, Len(text))
        found == {i \in from..(to - 2) : text[i + 1] = "." /\ text[i + 2] = " "}
    IN  IF found = {} THEN -1
        ELSE CHOOSE i \in found : \A j \in found : j <= i

\* A chunk
Chunk(text, start_char, end_char) ==
    [text |-> text, start_char |-> start_char, end_char |-> end_char]

\* The frame of a call of _create_fixed_chunks that has entered the loop:
\* lines 408 and 420
FixedFrame(text) == [text |-> text, start |-> 0, chunks |-> <<>>, done |-> FALSE]

\* The mutant of WindowEnd that never looks for the end of a sentence
WindowEndHard(text, chunk_size, start) ==
    IF start + chunk_size < Len(text) THEN start + chunk_size ELSE Len(text)

\* The end of the window that starts at start: lines 423-433
WindowEnd(text, chunk_size, start) ==
    LET end == start + chunk_size
        sentence_end == RFindSentence(text, start, end) + 1
    IN  IF end < Len(text)
        THEN IF sentence_end > start + (chunk_size \div 2)
             THEN sentence_end ELSE end
        ELSE Len(text)

\* The mutant of TinyRest that drops any rest shorter than a chunk
TinyRestWhole(text, chunk_size, start) ==
    /\ start + chunk_size > Len(text)
    /\ Len(text) - start < chunk_size

\* The test of lines 446-447: the rest of the text would make a tiny chunk
TinyRest(text, chunk_size, start) ==
    /\ start + chunk_size > Len(text)
    /\ Len(text) - start < chunk_size \div 2

\* One turn of the while loop of lines 421-447, and the test of line 421
\* for the next one
FixedTurn(frame, chunk_size, chunk_overlap) ==
    LET end == WindowEnd(frame.text, chunk_size, frame.start)
        start == end - chunk_overlap
    IN  [frame EXCEPT
            !.chunks = Append(@, Chunk(Slice(frame.text, frame.start, end),
                                       frame.start, end)),
            !.start = start,
            !.done = \/ TinyRest(frame.text, chunk_size, start)
                     \/ ~(start < Len(frame.text))]

\* The state of a call of _create_chunks: its arguments, the phase it is
\* in, the frame of the running _create_fixed_chunks, the locals of
\* _create_adaptive_chunks and the chunks it has returned
ChunkingCall(adaptive, text, chunk_size, chunk_overlap) ==
    [phase |-> "Start", adaptive |-> adaptive, text |-> text,
     chunk_size |-> chunk_size, chunk_overlap |-> chunk_overlap,
     fixed |-> FixedFrame(<<>>), paragraphs |-> <<>>, paragraph |-> <<>>,
     current_chunk |-> <<>>, current_size |-> 0, current_start |-> 0,
     chunks |-> <<>>, returned |-> <<>>]

\* _create_chunks is called: lines 396-399
CreateChunks(adaptive, text, chunk_size, chunk_overlap) ==
    /\ segmenter.phase = "Idle"
    /\ segmenter' = ChunkingCall(adaptive, text, chunk_size, chunk_overlap)

\* _create_fixed_chunks up to the loop: the text that fits in one chunk is
\* returned as one chunk (lines 411-417), another text enters the loop
CreateFixedChunks ==
    /\ segmenter.phase = "Start"
    /\ ~segmenter.adaptive
    /\ segmenter' =
           IF Len(segmenter.text) <= segmenter.chunk_size
           THEN [segmenter EXCEPT
                    !.phase = "Returned",
                    !.returned = <<Chunk(segmenter.text, 0, Len(segmenter.text))>>]
           ELSE IF 0 < Len(segmenter.text)
           THEN [segmenter EXCEPT !.phase = "Windowing",
                                  !.fixed = FixedFrame(segmenter.text)]
           ELSE [segmenter EXCEPT !.phase = "Returned", !.returned = <<>>]

\* One turn of the loop of _create_fixed_chunks; after the last one the
\* chunks are returned (line 449)
FixedWindow ==
    /\ segmenter.phase = "Windowing"
    /\ Len(segmenter.fixed.chunks) < MaxChunks
    /\ LET frame == FixedTurn(segmenter.fixed, segmenter.chunk_size,
                              segmenter.chunk_overlap)
       IN  segmenter' =
               IF frame.done
               THEN [segmenter EXCEPT !.phase = "Returned", !.fixed = frame,
                                      !.returned = frame.chunks]
               ELSE [segmenter EXCEPT !.fixed = frame]

\* Where the match of \n\s*\n that starts at position i ends (0 when there
\* is none): \s* is greedy, so the match ends with the last newline of the
\* run of whitespace that follows text[i]
BlankLineEnd(text, i) ==
    IF text[i] # "\n" THEN 0
    ELSE LET ends == {q \in (i + 1)..RunEnd(text, i + 1, Whitespace) :
                          text[q] = "\n"}
         IN  IF ends = {} THEN 0
             ELSE CHOOSE q \in ends : \A r \in ends : r <= q

\* re.split(r'\n\s*\n', text) from position p on
RECURSIVE SplitParagraphs(_, _)
SplitParagraphs(text, p) ==
    LET starts == {i \in p..Len(text) : BlankLineEnd(text, i) > 0}
    IN  IF starts = {} THEN <<SubSeq(text, p, Len(text))>>
        ELSE LET i == CHOOSE j \in starts : \A k \in starts : j <= k
             IN  <<SubSeq(text, p, i - 1)>>
                     \o SplitParagraphs(text, BlankLineEnd(text, i) + 1)

\* str.strip
Strip(text) ==
    LET kept == {i \in 1..Len(text) : text[i] \notin Whitespace}
    IN  IF kept = {} THEN <<>>
        ELSE SubSeq(text, CHOOSE i \in kept : \A j \in kept : i <= j,
                          CHOOSE i \in kept : \A j \in kept : j <= i)

\* "\n\n".join(paragraphs)
RECURSIVE JoinParagraphs(_)
JoinParagraphs(paragraphs) ==
    IF paragraphs = <<>> THEN <<>>
    ELSE IF Len(paragraphs) = 1 THEN paragraphs[1]
    ELSE paragraphs[1] \o <<"\n", "\n">> \o JoinParagraphs(Tail(paragraphs))

\* sum(len(p) for p in paragraphs)
RECURSIVE SumLen(_)
SumLen(paragraphs) ==
    IF paragraphs = <<>> THEN 0
    ELSE Len(Head(paragraphs)) + SumLen(Tail(paragraphs))

\* The chunk of the paragraphs collected in current_chunk: lines 483-488
\* and 527-532
CollectedChunk(call) ==
    LET chunk_text == JoinParagraphs(call.current_chunk)
    IN  Chunk(chunk_text, call.current_start,
              call.current_start + Len(chunk_text))

\* The mutant of Flushed that makes a chunk as soon as the next paragraph
\* fills chunk_size
FlushedWhenFull(call, paragraph_size) ==
    IF call.current_size + paragraph_size >= call.chunk_size /\ call.current_size > 0
    THEN LET chunk == CollectedChunk(call)
         IN  [call EXCEPT
                 !.chunks = Append(@, chunk),
                 !.current_chunk = <<>>,
                 !.current_size = 0,
                 !.current_start = call.current_start + Len(chunk.text)]
    ELSE call

\* Lines 481-494: the collected paragraphs become a chunk when the next
\* paragraph does not fit, and the last two of them are kept
Flushed(call, paragraph_size) ==
    IF call.current_size + paragraph_size > call.chunk_size /\ call.current_size > 0
    THEN LET chunk == CollectedChunk(call)
             overlap_start == IF Len(call.current_chunk) - 2 > 0
                              THEN Len(call.current_chunk) - 2 ELSE 0
             current_chunk == SubSeq(call.current_chunk, overlap_start + 1,
                                     Len(call.current_chunk))
             current_size == SumLen(current_chunk) + Len(current_chunk) - 1
         IN  [call EXCEPT
                 !.chunks = Append(@, chunk),
                 !.current_chunk = current_chunk,
                 !.current_size = current_size,
                 !.current_start = call.current_start + Len(chunk.text)
                                       - current_size]
    ELSE call

\* Lines 510-523: the chunks of the long paragraph but the first are added
\* with their offsets, and the collected paragraphs are dropped
WithParagraphChunks(call, para_chunks) ==
    [call EXCEPT
        !.chunks = @ \o [i \in 1..(Len(para_chunks) - 1) |->
                            Chunk(para_chunks[i + 1].text,
                                  call.current_start + para_chunks[i + 1].start_char,
                                  call.current_start + para_chunks[i + 1].end_char)],
        !.current_chunk = <<>>,
        !.current_size = 0,
        !.current_start = @ + Len(call.paragraph)]

\* _create_adaptive_chunks up to the loop: lines 463-470
CreateAdaptiveChunks ==
    /\ segmenter.phase = "Start"
    /\ segmenter.adaptive
    /\ segmenter' = [segmenter EXCEPT
                        !.phase = "Paragraphs",
                        !.paragraphs = SplitParagraphs(segmenter.text, 1)]

\* One paragraph of the loop of lines 472-523, up to the call of
\* _create_fixed_chunks for a paragraph longer than chunk_size
AdaptiveParagraph ==
    /\ segmenter.phase = "Paragraphs"
    /\ segmenter.paragraphs # <<>>
    /\ LET paragraph == Strip(Head(segmenter.paragraphs))
           rest == [segmenter EXCEPT !.paragraphs = Tail(@)]
           flushed == Flushed(rest, Len(paragraph))
           added == [flushed EXCEPT
                        !.paragraph = paragraph,
                        !.current_chunk = Append(@, paragraph),
                        !.current_size = @ + Len(paragraph) + 2]
       IN  segmenter' =
               IF paragraph = <<>> THEN rest
               ELSE IF Len(paragraph) > segmenter.chunk_size
               THEN [added EXCEPT !.phase = "ParagraphWindowing",
                                  !.fixed = FixedFrame(paragraph)]
               ELSE added

\* One turn of the loop of _create_fixed_chunks for the long paragraph;
\* after the last one lines 510-523 run
ParagraphWindow ==
    /\ segmenter.phase = "ParagraphWindowing"
    /\ Len(segmenter.fixed.chunks) < MaxChunks
    /\ LET frame == FixedTurn(segmenter.fixed, segmenter.chunk_size,
                              segmenter.chunk_overlap)
       IN  segmenter' =
               IF frame.done
               THEN [WithParagraphChunks(segmenter, frame.chunks)
                        EXCEPT !.phase = "Paragraphs", !.fixed = frame]
               ELSE [segmenter EXCEPT !.fixed = frame]

\* The end of _create_adaptive_chunks: lines 526-534
AdaptiveReturn ==
    /\ segmenter.phase = "Paragraphs"
    /\ segmenter.paragraphs = <<>>
    /\ segmenter' =
           [segmenter EXCEPT
               !.phase = "Returned",
               !.returned = IF segmenter.current_chunk # <<>>
                            THEN Append(segmenter.chunks, CollectedChunk(segmenter))
                            ELSE segmenter.chunks]

\* The texts of the callers
\* The text of test_create_fixed_chunks
TextSentences ==
    <<"T", "h", "i", "s", " ", "i", "s", " ", "a", " ", "t", "e", "s", "t",
      " ", "d", "o", "c", "u", "m", "e", "n", "t", ".", " ", "I", "t", " ",
      "h", "a", "s", " ", "s", "e", "v", "e", "r", "a", "l", " ", "s", "e",
      "n", "t", "e", "n", "c", "e", "s", ".", " ", "H", "e", "r", "e", " ",
      "i", "s", " ", "a", "n", "o", "t", "h", "e", "r", " ", "o", "n", "e",
      ".", " ", "A", "n", "d", " ", "a", "n", "o", "t", "h", "e", "r", ".">>

\* Three paragraphs 'A.', 'B.', 'C.' separated by blank lines
TextThree ==
    <<"A", ".", "\n", "\n", "B", ".", "\n", "\n", "C", ".">>

\* Two paragraphs written as in test_create_adaptive_chunks, indented and
\* surrounded by newlines
TextIndented ==
    <<"\n", " ", " ", "A", ".", "\n", "\n", " ", " ", "B", ".", "\n">>

\* A paragraph of twelve characters and a short one
TextLong ==
    <<"a", "a", "a", "a", "a", ".", " ", "a", "a", "a", "a", "a", "\n",
      "\n", "b", "b">>

\* Two short paragraphs and a paragraph of eight characters
TextLongLast ==
    <<"b", "b", "\n", "\n", "c", "c", "\n", "\n", "a", "a", "a", "a", "a",
      "a", "a", "a">>

\* The characters of the texts of the model
FixedAlphabet == {"a", ".", " "}
AdaptiveAlphabet == {"a", " ", "\n"}

\* Calls of the fixed chunking with every short text, chunk sizes that are
\* negative, zero and positive, and overlaps below and above half a chunk
ChunkingWindows ==
    {[name |-> "windows", adaptive |-> {FALSE},
      texts |-> SeqsUpTo(FixedAlphabet, MaxTextLen),
      sizes |-> -1..4, overlaps |-> 0..2]}

\* The call of test_create_fixed_chunks, and the same text with other
\* sizes and overlaps
ChunkingSentences ==
    {[name |-> "sentences", adaptive |-> BOOLEAN,
      texts |-> {TextSentences},
      sizes |-> {30, 40}, overlaps |-> {0, 10}]}

\* Calls of the adaptive chunking with every short text
ChunkingParagraphs ==
    {[name |-> "paragraphs", adaptive |-> {TRUE},
      texts |-> SeqsUpTo(AdaptiveAlphabet, MaxTextLen),
      sizes |-> -1..3, overlaps |-> {0, 1}]}

\* Calls of the adaptive chunking with paragraphs that fit in a chunk
\* together, one by one, or not at all
ChunkingLong ==
    {[name |-> "long", adaptive |-> BOOLEAN,
      texts |-> {TextThree, TextIndented, TextLong, TextLongLast},
      sizes |-> {0, 2, 4, 5, 6, 8, 10, 20}, overlaps |-> {0, 1, 3}]}

ChunkingScenarios ==
    ChunkingWindows \cup ChunkingSentences \cup ChunkingParagraphs \cup ChunkingLong

SegmenterInit ==
    /\ scenario \in ChunkingScenarios
    /\ store = {}
    /\ cache = {}
    /\ now = 0
    /\ ticks = 0
    /\ nextId = 1
    /\ last = NoCall
    /\ retrieval_cache = {}
    /\ retrieval_now = 0
    /\ retrieval_last = NoRetrieval
    /\ reflection = NoReflection
    /\ segmenter = NoChunking
    /\ adders = NoAdders
    /\ documents = NoDocuments
    /\ limiter = NoLimiter

ChunkAny(sc) ==
    /\ segmenter.phase = "Idle"
    /\ \E adaptive \in sc.adaptive : \E text \in sc.texts :
       \E chunk_size \in sc.sizes : \E chunk_overlap \in sc.overlaps :
           CreateChunks(adaptive, text, chunk_size, chunk_overlap)

SegmenterNext ==
    /\ \/ ChunkAny(scenario)
       \/ CreateFixedChunks
       \/ FixedWindow
       \/ CreateAdaptiveChunks
       \/ AdaptiveParagraph
       \/ ParagraphWindow
       \/ AdaptiveReturn
    /\ UNCHANGED <<memory_vars, scenario, retriever_vars, reflection_vars, adder_vars, document_vars, limiter_vars>>

SegmenterSpec == SegmenterInit /\ [][SegmenterNext]_vars

----------------------------------------------------------------------------
(* Properties of the chunking                                               *)

\* A call of the fixed chunking with a positive chunk size has returned
FixedReturned ==
    /\ segmenter.phase = "Returned"
    /\ ~segmenter.adaptive
    /\ segmenter.chunk_size > 0

\* The end of the last chunk returned
LastEnd == segmenter.returned[Len(segmenter.returned)].end_char

\* The positions of the text, counted from 0, that no returned chunk spans
Uncovered ==
    {p \in 0..(Len(segmenter.text) - 1) :
        \A i \in 1..Len(segmenter.returned) :
            ~(segmenter.returned[i].start_char <= p
                  /\ p < segmenter.returned[i].end_char)}

\* C25: the chunks returned by the fixed chunking, for any text and any
\* positive chunk size, have non-decreasing start_char, each holds the
\* characters of the text from its start_char up to its end_char, and
\* together they span the whole text, except for a tail after the last
\* chunk which is left out when the window that would follow, started
\* chunk_overlap before the end of the last chunk, is shorter than half a
\* chunk
C25_FixedSpansCover ==
    FixedReturned =>
        /\ \A i \in 1..(Len(segmenter.returned) - 1) :
               segmenter.returned[i].start_char
                   <= segmenter.returned[i + 1].start_char
        /\ \A i \in 1..Len(segmenter.returned) :
               LET chunk == segmenter.returned[i]
               IN  /\ 0 <= chunk.start_char
                   /\ chunk.start_char <= chunk.end_char
                   /\ chunk.end_char <= Len(segmenter.text)
                   /\ chunk.text = SubSeq(segmenter.text, chunk.start_char + 1,
                                          chunk.end_char)
        /\ \/ Uncovered = {}
           \/ /\ Uncovered = LastEnd..(Len(segmenter.text) - 1)
              /\ 2 * (Len(segmenter.text) - (LastEnd - segmenter.chunk_overlap))
                     < segmenter.chunk_size

\* The case of C25: two chunks or more were returned and a tail of the
\* text was left out
C25_Witness ==
    /\ FixedReturned
    /\ Len(segmenter.returned) >= 2
    /\ Uncovered # {}

\* The positions p, counted from 0, of the '. ' that lie within the window
\* of chunk_size characters that starts at start
SentenceEnds(start) ==
    {p \in start..(start + segmenter.chunk_size - 2) :
        /\ 0 <= p
        /\ p + 2 <= Len(segmenter.text)
        /\ segmenter.text[p + 1] = "."
        /\ segmenter.text[p + 2] = " "}

\* The greatest of a set of positions
Last(positions) == CHOOSE p \in positions : \A q \in positions : q <= p

\* Where the window that starts at start is cut, the statement read to the
\* letter: after the two characters of the last '. ' that lies more than
\* half a chunk into the window
CutAfterTerminator(start) ==
    LET found == {p \in SentenceEnds(start) :
                      2 * (p - start) > segmenter.chunk_size}
    IN  IF start + segmenter.chunk_size >= Len(segmenter.text)
        THEN Len(segmenter.text)
        ELSE IF found # {} THEN Last(found) + 2
        ELSE start + segmenter.chunk_size

\* Where the code cuts it: after the full stop of the last '. ' of the
\* window, when that cut lies more than chunk_size // 2 characters after
\* the start of the window; the space is left to the next window
CutAfterFullStop(start) ==
    LET found == SentenceEnds(start)
    IN  IF start + segmenter.chunk_size >= Len(segmenter.text)
        THEN Len(segmenter.text)
        ELSE IF found # {}
                 /\ Last(found) + 1 - start > segmenter.chunk_size \div 2
        THEN Last(found) + 1
        ELSE start + segmenter.chunk_size

\* The chunks returned follow one another with the overlap asked for, none
\* is longer than chunk_size, and each ends where cut(start_char) says
WindowsCutAt(cut(_)) ==
    FixedReturned =>
        /\ \A i \in 1..(Len(segmenter.returned) - 1) :
               /\ segmenter.returned[i + 1].start_char
                      = segmenter.returned[i].end_char - segmenter.chunk_overlap
               /\ segmenter.chunk_overlap > 0 =>
                      segmenter.returned[i + 1].start_char
                          < segmenter.returned[i].end_char
        /\ \A i \in 1..Len(segmenter.returned) :
               /\ Len(segmenter.returned[i].text) <= segmenter.chunk_size
               /\ segmenter.returned[i].end_char
                      = cut(segmenter.returned[i].start_char)

\* C26: in the fixed chunking each chunk after the first starts at the end
\* of the one before minus chunk_overlap, so that with a positive overlap
\* consecutive chunks overlap; a window that ends within the text is cut
\* just after the last '. ' found more than half a chunk into the window,
\* otherwise after chunk_size characters; no chunk is longer than
\* chunk_size
C26_WindowsAsStated == WindowsCutAt(CutAfterTerminator)

\* C26 as amended: the same, with the cut just after the full stop of the
\* last '. ' of the window, taken when the cut lies more than
\* chunk_size // 2 characters after the start of the window
C26_WindowsAmended == WindowsCutAt(CutAfterFullStop)

\* The case of C26: chunks that overlap were returned and the first was cut
\* at the end of a sentence, before chunk_size characters
C26_Witness ==
    /\ FixedReturned
    /\ Len(segmenter.returned) >= 2
    /\ segmenter.chunk_overlap > 0
    /\ segmenter.returned[2].start_char < segmenter.returned[1].end_char
    /\ segmenter.returned[1].end_char < segmenter.chunk_size
    /\ segmenter.returned[1].text[Len(segmenter.returned[1].text)] = "."

\* The paragraphs of the text of the call, stripped, those that are empty
\* left out
StrippedParagraphs ==
    LET split == SplitParagraphs(segmenter.text, 1)
        stripped == [i \in 1..Len(split) |-> Strip(split[i])]
    IN  SelectSeq(stripped, LAMBDA paragraph : paragraph # <<>>)

\* A call of the adaptive chunking has returned, for a text with a
\* paragraph at least whose paragraphs, joined by blank lines, fit in one
\* chunk
FittingReturned ==
    /\ segmenter.phase = "Returned"
    /\ segmenter.adaptive
    /\ StrippedParagraphs # <<>>
    /\ Len(JoinParagraphs(StrippedParagraphs)) <= segmenter.chunk_size

\* C27: the adaptive chunking of a text whose paragraphs all fit together
\* within chunk_size returns exactly one chunk, which starts at 0 and
\* spans the whole text
C27_OneChunkAsStated ==
    FittingReturned =>
        /\ Len(segmenter.returned) = 1
        /\ segmenter.returned[1].start_char = 0
        /\ segmenter.returned[1].end_char = Len(segmenter.text)

\* C27 as amended: it returns exactly one chunk, which starts at 0, holds
\* the stripped paragraphs joined by two newlines and ends at the length
\* of that text; the chunk spans the whole text exactly when the text is
\* already these paragraphs joined by two newlines, with no whitespace
\* around them
C27_OneChunkAmended ==
    FittingReturned =>
        /\ Len(segmenter.returned) = 1
        /\ segmenter.returned[1].start_char = 0
        /\ segmenter.returned[1].text = JoinParagraphs(StrippedParagraphs)
        /\ segmenter.returned[1].end_char = Len(segmenter.returned[1].text)
        /\ segmenter.returned[1].end_char = Len(segmenter.text)
               <=> segmenter.returned[1].text = segmenter.text

\* The case of C27: the paragraphs 'A.', 'B.', 'C.' separated by blank
\* lines came back as one chunk that holds the three of them
C27_Witness ==
    /\ FittingReturned
    /\ segmenter.text = TextThree
    /\ segmenter.returned = <<Chunk(TextThree, 0, Len(TextThree))>>

\* C28: in the adaptive chunking a paragraph longer than chunk_size is cut
\* by the fixed chunking, and every chunk the fixed chunking made of it is
\* among the chunks returned
C28_LongParagraphKept ==
    (/\ segmenter.phase = "Returned"
     /\ segmenter.adaptive
     /\ segmenter.fixed.done) =>
        \A j \in 1..Len(segmenter.fixed.chunks) :
            \E i \in 1..Len(segmenter.returned) :
                segmenter.returned[i].text = segmenter.fixed.chunks[j].text

\* C29: the chunking of the empty text returns no chunk, fixed or adaptive
C29_EmptyTextNoChunks ==
    (segmenter.phase = "Returned" /\ segmenter.text = <<>>) =>
        segmenter.returned = <<>>

\* C30: a call with chunk_size <= 0 fails at once, fixed or adaptive: it
\* makes no chunk, never enters the loop of the windows and returns
\* nothing
C30_BadSizeFailsFast ==
    (segmenter.phase # "Idle" /\ segmenter.chunk_size <= 0) =>
        /\ segmenter.phase \notin {"Windowing", "ParagraphWindowing", "Returned"}
        /\ segmenter.fixed.chunks = <<>>
        /\ segmenter.chunks = <<>>

\* The chunking with fair steps: a call that can take its next step takes
\* it (the loops run without suspension).  The model stops following a
\* loop after MaxChunks chunks, so a call that never returns here is one
\* whose loop has not ended after MaxChunks turns
SegmenterFairSpec == SegmenterSpec /\ WF_vars(SegmenterNext)

\* The fixed chunking is in its loop, with the arguments of C35
InFixedLoop ==
    /\ segmenter.phase = "Windowing"
    /\ segmenter.chunk_size > 0
    /\ 0 <= segmenter.chunk_overlap
    /\ segmenter.chunk_overlap < segmenter.chunk_size

\* A turn of the loop moves the start of the window forward
StartIncreases ==
    (InFixedLoop /\ segmenter'.fixed # segmenter.fixed) =>
        segmenter'.fixed.start > segmenter.fixed.start

\* No chunk was made twice
NoChunkTwice ==
    \A i, j \in 1..Len(segmenter.fixed.chunks) :
        segmenter.fixed.chunks[i] = segmenter.fixed.chunks[j] => i = j

\* C35: the fixed chunking ends for every text when chunk_size > 0 and
\* 0 <= chunk_overlap < chunk_size: every turn of the loop moves the start
\* of the window forward, no chunk is made twice, and the call returns
C35_FixedTerminates ==
    /\ [][StartIncreases]_vars
    /\ [](InFixedLoop => NoChunkTwice)
    /\ InFixedLoop ~> segmenter.phase = "Returned"

\* C39: no chunk returned by the adaptive chunking is longer than
\* chunk_size, whatever the sizes of the paragraphs, also after the
\* collected paragraphs were replaced by the last two of the chunk made
C39_AdaptiveChunksFit ==
    (/\ segmenter.phase = "Returned"
     /\ segmenter.adaptive
     /\ segmenter.chunk_size > 0) =>
        \A i \in 1..Len(segmenter.returned) :
            Len(segmenter.returned[i].text) <= segmenter.chunk_size

----------------------------------------------------------------------------
(* Further properties of the memory manager                                 *)

\* C34: after any sequence of add and promote calls, every item of the
\* long_term tier has an importance of at least long_term_memory_threshold
C34_LongTermGated ==
    \A r \in store :
        r.memory_type = "long_term" =>
            r.importance >= long_term_memory_threshold

\* The rows the prune pass of the last call deleted
PrunedRows == last.mid \ store

\* C37: the prune pass of an add or a promote deletes only items of the
\* scope of the call: an item that has an owner is never deleted by a call
\* made for another owner or for no owner
C37_PruneWithinOwner ==
    last.op \in {"add", "promote"} =>
        \A d \in PrunedRows :
            d.user_id # NoOwner => last.prune.user_id = d.user_id

\* C38: whenever add returns the failure result, the store holds no item
\* created by the call: the failure of a collaborator at any step of add
\* (insert, write of the working-memory mirror, prune) leaves the table as
\* it was before the call
C38_FailedAddStoresNothing ==
    (last.op = "add" /\ last.result = "none") => store = last.pre

\* The mirror of the working tier: every entry of the cache is the entry of
\* a row that the table holds in the working tier.
Mirrored(e) == \E r \in store : r.id = e.id /\ r.memory_type = "working"

\* C40: every mirror entry corresponds to an item that is in the store in
\* the working tier: once forget, forgetAll, a prune pass or promote has taken
\* an item out of the working tier, no mirror entry of it remains readable
C40_MirrorFollowsStore == \A e \in cache : Mirrored(e)

\* The rows a get returned and the rows a forget_all deleted
Acted == IF last.op \in {"get", "forget_all"} THEN last.rows ELSE {}

\* C32: get and forgetAll act only on items that match every filter supplied
\* (tier, owner, conversation): with a conversation filter no item of another
\* conversation is returned or deleted, and a conversation id that is
\* malformed fails fast, no item being returned or deleted under the
\* remaining filters
C32_EveryFilterApplied ==
    \A r \in Acted :
        /\ last.args.memory_type # NoTier
              => r.memory_type = last.args.memory_type
        /\ last.args.user_id # NoOwner => r.user_id = last.args.user_id
        /\ last.args.conversation_id # NoConv
              => r.conversation_id = last.args.conversation_id

----------------------------------------------------------------------------
(* Part 5: two calls of add_to_memory in one scope, interleaved             *)
(*                                                                          *)
(* add_to_memory awaits the relational store and the cache; between two     *)
(* awaits of one call the event loop may run the other call.  Each action   *)
(* below is one awaited statement of one call: the INSERT, the cache write  *)
(* of the working tier, the COUNT of the prune pass and its DELETE.         *)

\* The calls in flight
Adders == {1, 2}
\* rows of the scope before the two calls, at most
MaxPresent == 2

\* One call: where it stands, the row it inserted and the excess it counted
AdderIdle == [pc |-> "idle", id |-> 0, excess |-> 0]

\* INSERT INTO memory_items ... RETURNING id
AdderInsert(p, importance) ==
    LET memory_type == adders.memory_type
        row == NewRow(nextId, adders.user_id, NoConv, "a", memory_type,
                      importance, ExpiresAt(memory_type, now), now)
    IN  /\ adders.calls[p].pc = "idle"
        /\ store' = store \cup {row}
        /\ nextId' = nextId + 1
        /\ adders' = [adders EXCEPT
                        !.calls[p].pc = IF memory_type = "working"
                                        THEN "inserted" ELSE "stored",
                        !.calls[p].id = nextId]
        /\ UNCHANGED cache

\* cache_store.set(cache_key, {...}, expiry=working_memory_ttl)
AdderMirror(p) ==
    /\ adders.calls[p].pc = "inserted"
    /\ cache' = cache \cup {CacheEntry(adders.memory_type, adders.user_id,
                                       NoConv, adders.calls[p].id,
                                       now + working_memory_ttl)}
    /\ adders' = [adders EXCEPT !.calls[p].pc = "stored"]
    /\ UNCHANGED <<store, nextId>>

\* SELECT COUNT(*) ...; if count > max_items: excess = count - max_items
AdderCount(p) ==
    LET max_items == PruneLimit(adders.memory_type)
        count == Cardinality(PruneScope(store, adders.memory_type,
                                        adders.user_id))
    IN  /\ adders.calls[p].pc = "stored"
        /\ adders' = IF count > max_items
                     THEN [adders EXCEPT
                             !.calls[p].pc = "counted",
                             !.calls[p].excess =
                                 PruneExcess(count, max_items)]
                     ELSE [adders EXCEPT !.calls[p].pc = "done"]
        /\ UNCHANGED <<store, cache, nextId>>

\* DELETE ... WHERE id IN (SELECT id ... ORDER BY importance ASC,
\* last_accessed_at ASC, created_at ASC LIMIT excess), on the table as it
\* is when the statement runs: the first `excess` rows of the scope, all of
\* them when the scope holds no more.
DeleteLowest(rows, memory_type, user_id, excess) ==
    LET scope == PruneScope(rows, memory_type, user_id)
        n == IF excess <= Cardinality(scope) THEN excess
             ELSE Cardinality(scope)
    IN  {D \in SUBSET scope :
            /\ Cardinality(D) = n
            /\ \A d \in D : \A k \in scope \ D : PruneOrderLE(d, k)}

AdderDelete(p) ==
    /\ adders.calls[p].pc = "counted"
    /\ \E D \in DeleteLowest(store, adders.memory_type, adders.user_id,
                             adders.calls[p].excess) :
          store' = store \ D
    /\ adders' = [adders EXCEPT !.calls[p].pc = "done"]
    /\ UNCHANGED <<cache, nextId>>

\* The rows of the scope when the two calls start: a scope that earlier
\* calls, one at a time, left within its capacity.
Present(k, memory_type, user_id) ==
    {NewRow(i, user_id, NoConv, "a", memory_type, 3,
            ExpiresAt(memory_type, 0), 0) : i \in 1..k}

PresentMirror(rows) ==
    {CacheEntry(r.memory_type, r.user_id, r.conversation_id, r.id,
                r.expires_at) : r \in {w \in rows : w.memory_type = "working"}}

ScenarioInterleaved(max_items) ==
    [ScenarioDeep EXCEPT !.name = "interleaved", !.max_items = max_items]

AddersInit ==
    /\ \E max_items \in 1..MaxPresent : scenario = ScenarioInterleaved(max_items)
    /\ \E k \in 0..MaxPresent, memory_type \in {"working", "long_term"},
          user_id \in {NoOwner, "u1"} :
          /\ k <= scenario.max_items
          /\ store = Present(k, memory_type, user_id)
          /\ cache = PresentMirror(store)
          /\ nextId = k + 1
          /\ adders = [name |-> "adds", memory_type |-> memory_type,
                       user_id |-> user_id, present |-> k,
                       calls |-> [p \in Adders |-> AdderIdle]]
    /\ now = 0
    /\ ticks = 0
    /\ last = NoCall
    /\ retrieval_cache = {}
    /\ retrieval_now = 0
    /\ retrieval_last = NoRetrieval
    /\ reflection = NoReflection
    /\ segmenter = NoChunking
    /\ documents = NoDocuments
    /\ limiter = NoLimiter

AddersNext ==
    /\ \E p \in Adders :
          \/ \E importance \in Importances : AdderInsert(p, importance)
          \/ AdderMirror(p)
          \/ AdderCount(p)
          \/ AdderDelete(p)
    /\ UNCHANGED <<now, ticks, last, scenario, retriever_vars, reflection_vars, segmenter_vars, document_vars, limiter_vars>>

AddersSpec == AddersInit /\ [][AddersNext]_vars

\* Both calls have returned
BothComplete == \A p \in Adders : adders.calls[p].pc = "done"

\* The rows of the scope of the two calls
AddersScope == PruneScope(store, adders.memory_type, adders.user_id)

\* C36: two add calls for one (tier, owner) scope interleaved at the store
\* boundaries (insert, count, delete): their prune passes together delete
\* only the excess over the capacity, so that once both calls are complete
\* the scope holds exactly capacity items when more than capacity were
\* present, never fewer
C36_InterleavedPrunesKeepCapacity ==
    (BothComplete /\ adders.present + Cardinality(Adders) > PruneLimit(adders.memory_type))
        => Cardinality(AddersScope) = PruneLimit(adders.memory_type)

----------------------------------------------------------------------------
(* Part 6: the document processor's documents                               *)
(*                                                                          *)
(* process_document, delete_document and update_document against the       *)
(* relational store (the metadata of a document, under its id) and the      *)
(* vector store (the chunks, each carrying the id of its document).  A      *)
(* file is a version of a text; the chunking of Part 4 makes ChunkCount     *)
(* chunks of it.                                                            *)

\* number of ids uuid.uuid4() hands out in one behaviour
MaxDocs == 3

Versions == {"v1", "v2"}
NoNote == "none"
Notes == {NoNote, "n1"}

\* len(chunks) for the text of a version
ChunkCount(version) == IF version = "v1" THEN 2 ELSE 1

\* The steps of the three methods at which a collaborator may raise
ProcessFails == {"no", "ext", "metadata", "vector"}
DocDeleteFails == {"no", "delete_vector", "delete_relational"}
\* update_document: its own lookup, and the steps of the two methods it calls
UpdateFails == {"no", "get"} \cup DocDeleteFails \cup ProcessFails

NoDocCall ==
    [op |-> "none", document_id |-> 0, version |-> "none", note |-> NoNote,
     result |-> "none", created |-> 0, pre |-> {}]

DocCall(op, document_id, version, note, result, created, pre) ==
    [op |-> op, document_id |-> document_id, version |-> version,
     note |-> note, result |-> result, created |-> created, pre |-> pre]

\* metadata.update({"filename": ..., "document_id": document_id, ...}) and
\* relational_store.store_document_metadata(document_id, metadata)
DocumentMetadata(document_id, version, note) ==
    [document_id |-> document_id, version |-> version, note |-> note]

\* chunk_id = f"{document_id}_chunk_{i}", with the text of the chunk
ChunkData(document_id, version) ==
    {[document_id |-> document_id, chunk_index |-> i, version |-> version] :
        i \in 0..(ChunkCount(version) - 1)}

\* document_id = str(uuid.uuid4()): process_document takes no id, the new
\* version gets the id generated in the call
NewDocumentId(passed, fresh) == fresh

\* The stores after process_document, and whether it raised: the file
\* extension is validated first; the metadata is stored, then the chunks
Processed(d, document_id, version, note, fail) ==
    IF fail = "ext" \/ fail = "metadata" THEN
        [metadata |-> d.metadata, chunks |-> d.chunks, raised |-> TRUE]
    ELSE IF fail = "vector" THEN
        [metadata |-> d.metadata
                        \cup {DocumentMetadata(document_id, version, note)},
         chunks |-> d.chunks, raised |-> TRUE]
    ELSE
        [metadata |-> d.metadata
                        \cup {DocumentMetadata(document_id, version, note)},
         chunks |-> d.chunks \cup ChunkData(document_id, version),
         raised |-> FALSE]

\* The stores after delete_document, and its result: the chunks go first
\* (vector_store.delete_by_filter), then the metadata; an error is logged
\* and False returned
Deleted(d, document_id, fail) ==
    IF fail = "delete_vector" THEN
        [metadata |-> d.metadata, chunks |-> d.chunks, result |-> "false"]
    ELSE IF fail = "delete_relational" THEN
        [metadata |-> d.metadata,
         chunks |-> {c \in d.chunks : c.document_id # document_id},
         result |-> "false"]
    ELSE
        [metadata |-> {m \in d.metadata : m.document_id # document_id},
         chunks |-> {c \in d.chunks : c.document_id # document_id},
         result |-> "true"]

\* relational_store.get_document_metadata(document_id); None when absent
Existing(d, document_id) == {m \in d.metadata : m.document_id = document_id}

ProcessDocument(version, note, fail) ==
    LET document_id == documents.nextUuid
        after == Processed(documents, document_id, version, note, fail)
    IN  /\ documents.nextUuid <= MaxDocs
        /\ documents' =
              [documents EXCEPT
                 !.metadata = after.metadata,
                 !.chunks = after.chunks,
                 !.nextUuid = document_id + 1,
                 !.last = DocCall("process", 0, version, note,
                                  IF after.raised THEN "raised" ELSE "id",
                                  document_id,
                                  [metadata |-> documents.metadata,
                                   chunks |-> documents.chunks])]

DeleteDocument(document_id, fail) ==
    LET after == Deleted(documents, document_id, fail)
    IN  documents' =
            [documents EXCEPT
               !.metadata = after.metadata,
               !.chunks = after.chunks,
               !.last = DocCall("delete", document_id, "none", NoNote,
                                after.result, 0,
                                [metadata |-> documents.metadata,
                                 chunks |-> documents.chunks])]

\* if metadata: existing_metadata.update(metadata)
MergedNote(existing, note) == IF note # NoNote THEN note ELSE existing.note

UpdateDocument(document_id, version, note, fail) ==
    LET pre == [metadata |-> documents.metadata, chunks |-> documents.chunks]
    IN
    IF fail = "get" \/ Existing(documents, document_id) = {} THEN
        \* the lookup raised, or the document is not found: return False
        /\ documents' =
              [documents EXCEPT
                 !.last = DocCall("update", document_id, version, note,
                                  "false", 0, pre)]
    ELSE
        LET existing == CHOOSE m \in Existing(documents, document_id) : TRUE
            \* await self.delete_document(document_id): the result is
            \* not looked at
            gone == Deleted(documents, document_id, fail)
            fresh == documents.nextUuid
            new_id == NewDocumentId(document_id, fresh)
            after == Processed(gone, new_id, version,
                               MergedNote(existing, note), fail)
        IN  /\ documents.nextUuid <= MaxDocs
            /\ documents' =
                  [documents EXCEPT
                     !.metadata = after.metadata,
                     !.chunks = after.chunks,
                     !.nextUuid = fresh + 1,
                     !.last = DocCall("update", document_id, version, note,
                                      IF after.raised THEN "false"
                                      ELSE "true",
                                      new_id, pre)]

DocumentsInit ==
    /\ documents = [name |-> "documents", metadata |-> {}, chunks |-> {},
                    nextUuid |-> 1, last |-> NoDocCall]
    /\ store = {}
    /\ cache = {}
    /\ now = 0
    /\ ticks = 0
    /\ nextId = 1
    /\ last = NoCall
    /\ scenario = ScenarioDeep
    /\ retrieval_cache = {}
    /\ retrieval_now = 0
    /\ retrieval_last = NoRetrieval
    /\ reflection = NoReflection
    /\ segmenter = NoChunking
    /\ adders = NoAdders
    /\ limiter = NoLimiter

ProcessAny ==
    \E version \in Versions, note \in Notes, fail \in ProcessFails :
        ProcessDocument(version, note, fail)

DeleteAny ==
    \E document_id \in 1..MaxDocs, fail \in DocDeleteFails :
        DeleteDocument(document_id, fail)

UpdateAny ==
    \E document_id \in 1..MaxDocs, version \in Versions, note \in Notes,
       fail \in UpdateFails :
        UpdateDocument(document_id, version, note, fail)

DocumentsNext ==
    /\ \/ ProcessAny
       \/ DeleteAny
       \/ UpdateAny
    /\ UNCHANGED <<memory_vars, scenario, retriever_vars, reflection_vars, segmenter_vars, adder_vars, limiter_vars>>

DocumentsSpec == DocumentsInit /\ [][DocumentsNext]_vars

\* update_document returned True
Updated == documents.last.op = "update" /\ documents.last.result = "true"

\* The chunks the stores held for the document before the call
PreviousChunks ==
    {c \in documents.last.pre.chunks :
        c.document_id = documents.last.document_id}

\* C31: after update_document(id, ...) returns True, the new metadata and
\* the new chunks are stored under the document id that was passed in, and
\* no chunk of the previous version remains
C31_UpdateKeepsId ==
    Updated =>
        /\ \E m \in documents.metadata :
              /\ m.document_id = documents.last.document_id
              /\ m.version = documents.last.version
        /\ ChunkData(documents.last.document_id, documents.last.version)
              \subseteq documents.chunks
        /\ \A c \in documents.chunks :
              c.document_id = documents.last.document_id
                 => c.version = documents.last.version
        /\ PreviousChunks \cap documents.chunks
              \subseteq ChunkData(documents.last.document_id,
                                  documents.last.version)

----------------------------------------------------------------------------
(* Part 7: RateLimitMiddleware                                              *)
(*                                                                          *)
(* dispatch runs from reading the clock to the end of the block under the  *)
(* lock without an await (the lock is never held across one), so that the   *)
(* decision on a request is one step; the handler (call_next) is awaited,   *)
(* and the headers of the response are set in a later step.  The cleanup    *)
(* task, created by the first dispatch, runs between the steps.  Time is    *)
(* in seconds.                                                              *)

\* seconds the clock of the middleware advances in one behaviour
MaxLimiterTime == 3
\* requests awaiting their handler at one time
MaxInFlight == 1
\* window_size of the configuration
window_size == 2

ClientIPs == {"ip1", "ip2"}
RequestsPerMinute == {1, 2}
BurstLimits == {1, 3}

requests_per_minute == limiter.requests_per_minute
burst_limit == limiter.burst_limit

\* self.requests.get(ip, []): the list of the timestamps recorded for ip
RequestsOf(requests, ip) ==
    IF ip \in DOMAIN requests THEN requests[ip] ELSE <<>>

\* A cleaning that forgets a request one second early
LiveRequestsEarly(list, current_time) ==
    SelectSeq(list, LAMBDA t : current_time - t < window_size - 1)

\* [(t, p) for t, p in self.requests[client_ip]
\*  if current_time - t < self.window_size]
LiveRequests(list, current_time) ==
    SelectSeq(list, LAMBDA t : current_time - t < window_size)

\* _check_burst_limit: fewer than burst_limit requests in the last second
CheckBurstLimit(list, current_time) ==
    Len(SelectSeq(list, LAMBDA t : current_time - t <= 1)) < burst_limit

\* retry_after = int(self.window_size - (current_time - requests[0][0]))
RetryAfter(list, current_time) == window_size - (current_time - list[1])

NoRequest ==
    [op |-> "none", ip |-> "none", outcome |-> "none", status_code |-> 0,
     body |-> {}, retry_after |-> 0, remaining |-> 0, live |-> <<>>,
     history |-> <<>>]

\* What the last step did: the client, whether the request was forwarded,
\* the response (status, keys of the body), the list of the client after
\* cleaning and the requests of the client admitted before this one
Request(op, ip, outcome, status_code, body, retry_after, remaining, live, history) ==
    [op |-> op, ip |-> ip, outcome |-> outcome, status_code |-> status_code,
     body |-> body, retry_after |-> retry_after, remaining |-> remaining,
     live |-> live, history |-> history]

\* With(requests, ip, list): self.requests[ip] = list
WithRequests(requests, ip, list) ==
    [k \in DOMAIN requests \cup {ip} |->
        IF k = ip THEN list ELSE requests[k]]

\* dispatch, up to the call of the handler
Dispatch(client_ip) ==
    LET current_time == limiter.now
        live == LiveRequests(RequestsOf(limiter.requests, client_ip),
                             current_time)
        requests_count == Len(live)
        remaining == Max(0, requests_per_minute - requests_count)
        history == limiter.admitted[client_ip]
    IN
    IF remaining <= 0 THEN
        limiter' =
            [limiter EXCEPT
               !.cleanup_task = TRUE,
               !.requests = WithRequests(limiter.requests, client_ip, live),
               !.last = Request("dispatch", client_ip, "rejected", 429,
                                {"error", "retry_after"},
                                RetryAfter(live, current_time), remaining,
                                live, history)]
    ELSE IF ~CheckBurstLimit(live, current_time) THEN
        limiter' =
            [limiter EXCEPT
               !.cleanup_task = TRUE,
               !.requests = WithRequests(limiter.requests, client_ip, live),
               !.last = Request("dispatch", client_ip, "rejected", 429,
                                {"error", "retry_after"}, 1, remaining,
                                live, history)]
    ELSE
        /\ Cardinality(limiter.inflight) < MaxInFlight
        /\ limiter' =
            [limiter EXCEPT
               !.cleanup_task = TRUE,
               !.requests = WithRequests(limiter.requests, client_ip,
                                         Append(live, current_time)),
               !.admitted[client_ip] = Append(history, current_time),
               !.inflight = limiter.inflight
                               \cup {[ip |-> client_ip,
                                      current_time |-> current_time,
                                      remaining |-> remaining]},
               !.last = Request("dispatch", client_ip, "forwarded", 0, {},
                                0, remaining, live, history)]

\* dispatch, after the handler has returned: the rate limit headers; the
\* entry of the client is read again, and a KeyError is raised when the
\* cleanup task has deleted it
Respond(r) ==
    LET present == r.ip \in DOMAIN limiter.requests
        list == RequestsOf(limiter.requests, r.ip)
        reset_time == IF list # <<>>
                      THEN RetryAfter(list, r.current_time)
                      ELSE window_size
    IN  limiter' =
            [limiter EXCEPT
               !.inflight = limiter.inflight \ {r},
               !.last = IF present
                        THEN Request("respond", r.ip, "forwarded", 200, {},
                                     reset_time, r.remaining - 1, list,
                                     limiter.admitted[r.ip])
                        ELSE Request("respond", r.ip, "raised", 500, {}, 0,
                                     r.remaining, list,
                                     limiter.admitted[r.ip])]

\* _cleanup_old_requests, one turn of its loop
CleanupOldRequests ==
    LET current_time == limiter.now
        kept == {ip \in DOMAIN limiter.requests :
                    LiveRequests(limiter.requests[ip], current_time) # <<>>}
    IN  /\ limiter.cleanup_task
        /\ limiter' =
              [limiter EXCEPT
                 !.requests = [ip \in kept |->
                                 LiveRequests(limiter.requests[ip],
                                              current_time)],
                 !.last = [NoRequest EXCEPT !.op = "cleanup"]]

\* time.time() advances
LimiterTick ==
    /\ limiter.now < MaxLimiterTime
    /\ limiter' = [limiter EXCEPT !.now = limiter.now + 1,
                                  !.last = [NoRequest EXCEPT !.op = "tick"]]

LimiterInit ==
    /\ \E rpm \in RequestsPerMinute, burst \in BurstLimits :
          limiter = [name |-> "limiter", requests_per_minute |-> rpm,
                     burst_limit |-> burst, requests |-> <<>>,
                     admitted |-> [ip \in ClientIPs |-> <<>>],
                     inflight |-> {}, now |-> 0, cleanup_task |-> FALSE,
                     last |-> NoRequest]
    /\ store = {}
    /\ cache = {}
    /\ now = 0
    /\ ticks = 0
    /\ nextId = 1
    /\ last = NoCall
    /\ scenario = ScenarioDeep
    /\ retrieval_cache = {}
    /\ retrieval_now = 0
    /\ retrieval_last = NoRetrieval
    /\ reflection = NoReflection
    /\ segmenter = NoChunking
    /\ adders = NoAdders
    /\ documents = NoDocuments

DispatchAny == \E client_ip \in ClientIPs : Dispatch(client_ip)

RespondAny == \E r \in limiter.inflight : Respond(r)

LimiterNext ==
    /\ \/ DispatchAny
       \/ RespondAny
       \/ CleanupOldRequests
       \/ LimiterTick
    /\ UNCHANGED <<memory_vars, scenario, retriever_vars, reflection_vars, segmenter_vars, adder_vars, document_vars>>

LimiterSpec == LimiterInit /\ [][LimiterNext]_vars

\* The requests of a list made in the window of window_size seconds that
\* starts at s
InWindow(list, s) ==
    Len(SelectSeq(list, LAMBDA t : s <= t /\ t < s + window_size))

\* The requests of a list made less than window_size seconds before t, and
\* those made in the last second before t
Recent(list, t) == Len(SelectSeq(list, LAMBDA x : t - x < window_size))
Burst(list, t) == Len(SelectSeq(list, LAMBDA x : t - x <= 1))

\* The decision on a request at t of a client whose admitted requests are
\* those of list, whatever the other clients have done
Decision(list, t) ==
    IF Recent(list, t) >= requests_per_minute \/ Burst(list, t) >= burst_limit
    THEN "rejected" ELSE "forwarded"

\* C33: for one client IP, at most requests_per_minute requests are admitted
\* within any window of window_size seconds; the next request in the window
\* is rejected with status 429 and a body carrying error and retry_after, is
\* not forwarded to the handler and is not recorded against the client; the
\* requests of other client IPs do not affect the decision
C33_RateLimited ==
    /\ \A ip \in ClientIPs : \A s \in 0..MaxLimiterTime :
          InWindow(limiter.admitted[ip], s) <= requests_per_minute
    /\ limiter.last.op = "dispatch" =>
          /\ limiter.last.outcome
                = Decision(limiter.last.history, limiter.now)
          /\ Recent(limiter.last.history, limiter.now) >= requests_per_minute
                => limiter.last.outcome = "rejected"
          /\ limiter.last.outcome = "rejected" =>
                /\ limiter.last.status_code = 429
                /\ {"error", "retry_after"} \subseteq limiter.last.body
                /\ limiter.admitted[limiter.last.ip] = limiter.last.history
                /\ limiter.requests[limiter.last.ip] = limiter.last.live
                /\ \A r \in limiter.inflight :
                      ~(r.ip = limiter.last.ip
                        /\ r.current_time = limiter.now
                        /\ r.remaining = limiter.last.remaining)

\* A client at its limit is rejected, and in the same second a request of
\* the other client, which is below its limit, has been admitted
C33_Witness ==
    /\ limiter.last.op = "dispatch"
    /\ limiter.last.outcome = "rejected"
    /\ Recent(limiter.last.history, limiter.now) = requests_per_minute
    /\ Burst(limiter.last.history, limiter.now) < burst_limit
    /\ \E ip \in ClientIPs \ {limiter.last.ip} :
          /\ limiter.admitted[ip] # <<>>
          /\ limiter.admitted[ip][Len(limiter.admitted[ip])] = limiter.now

====
